---- MODULE Spec2Model ----
(***************************************************************************)
(* codex-changelog: release notes -> tweet thread pipeline.                *)
(*                                                                         *)
(* The repository holds three generations of the formatter:                *)
(*   A  src/unnamed/part_002   280 chars, "(cont...)" markers              *)
(*   B  src/src/formatter.ts   280 chars, section counts, "(i/N)" numbers  *)
(*   C  src/unnamed/part_003   4000 chars, title card, category items      *)
(* and the runner src/src/index.ts (checkpoint file, posting).             *)
(*                                                                         *)
(* Strings are TLA+ strings; Len counts UTF-16 units as JavaScript's       *)
(* .length does.  Non-ASCII literals of the source are replaced by ASCII   *)
(* stand-ins of the same UTF-16 length (Bullet, Rocket, DownArrow).        *)
(***************************************************************************)
EXTENDS Integers, Sequences, FiniteSets, TLC

VARIABLES
  version,            \* formatTweets argument
  features,           \* formatTweets argument
  releaseUrl,         \* formatTweets argument
  items,              \* formatTweets argument of C (SectionItems)
  counts,             \* formatTweets argument of B (SectionCounts)
  fmt,                \* which formatter produced `tweets` ("none" before the call)
  truncatedFeatures,  \* features.map(truncateFeature) of the call
  tweets,             \* TweetThread.tweets returned by the call
  feed,               \* the releases parseRssItems yields for the RSS feed, in feed order
  stateFile,          \* content of data/last-posted-version.txt, or NoFile
  pc,                 \* position of the index.ts process
  dryRun,             \* DRY_RUN of the current process
  backfill,           \* BACKFILL of the current process
  lastPosted,         \* main's local lastPosted
  queue,              \* releases main still has to hand to postRelease (head = current)
  thread,             \* tweets of the release being posted
  tweetIds,           \* postThread's local tweetIds
  posted,             \* every successful client.v2.tweet call so far
  run,                \* number of processes started so far
  runLog,             \* per process: its mode, what it saw and how it ended
  reads,              \* readLastPostedVersion calls of the current process
  writes,             \* writeLastPostedVersion calls of the current process
  fn,                 \* the library function under call ("none" when there is none)
  args,               \* its arguments
  result,             \* its return value, once status is "returned"
  status              \* "called", "returned" or "threw"

fvars == <<version, features, releaseUrl, items, counts, fmt, truncatedFeatures, tweets>>
rvars == <<feed, stateFile, pc, dryRun, backfill, lastPosted, queue, thread, tweetIds,
           posted, run, runLog, reads, writes>>
lvars == <<fn, args, result, status>>
vars == <<fvars, rvars, lvars>>

----------------------------------------------------------------------------
(* Bounds of the explored inputs *)

MaxFeatures == 5
MaxItems == 5
MaxFeed == 2
MaxRuns == 2

FeatureLens == {0, 61, 100, 300, 600}
ItemLens == {10, 390, 900}

----------------------------------------------------------------------------
(* JavaScript string primitives *)

Bullet == "*"       \* U+2022, one UTF-16 unit
Rocket == "^^"      \* U+1F680, two UTF-16 units
DownArrow == "v"    \* U+2193, one UTF-16 unit

Min(a, b) == IF a < b THEN a ELSE b
Max(a, b) == IF a > b THEN a ELSE b

RECURSIVE Rep(_, _)
Rep(c, n) ==
  IF n <= 0 THEN ""
  ELSE LET h == Rep(c, n \div 2) IN
       IF n % 2 = 0 THEN h \o h ELSE h \o h \o c

\* String.prototype.slice(start, end) for 0 <= start
Slice(s, start, end) == SubSeq(s, start + 1, Min(end, Len(s)))

CharAt(s, i) == SubSeq(s, i, i)

StartsWith(s, p) == Len(s) >= Len(p) /\ SubSeq(s, 1, Len(p)) = p

EndsWith(s, p) == Len(s) >= Len(p) /\ SubSeq(s, Len(s) - Len(p) + 1, Len(s)) = p

\* String.prototype.includes
Contains(s, t) ==
  \/ t = ""
  \/ \E i \in 1..(Len(s) - Len(t) + 1) :
       /\ CharAt(s, i) = CharAt(t, 1)
       /\ SubSeq(s, i, i + Len(t) - 1) = t

\* Array.prototype.join
RECURSIVE Join(_, _)
Join(seq, sep) ==
  IF Len(seq) = 0 THEN ""
  ELSE IF Len(seq) = 1 THEN seq[1]
  ELSE LET half == Len(seq) \div 2
       IN Join(SubSeq(seq, 1, half), sep) \o sep
            \o Join(SubSeq(seq, half + 1, Len(seq)), sep)

\* Array.prototype.map
Map(Op(_), seq) == [i \in 1..Len(seq) |-> Op(seq[i])]

\* Array.prototype.filter
RECURSIVE Filter(_, _)
Filter(Keep(_), seq) ==
  IF Len(seq) = 0 THEN <<>>
  ELSE (IF Keep(seq[1]) THEN <<seq[1]>> ELSE <<>>) \o Filter(Keep, Tail(seq))

\* String.prototype.split(sep) for a one-character separator
Split(s, sep) ==
  LET seps == {i \in 1..Len(s) : CharAt(s, i) = sep}
      starts == {1} \cup {i + 1 : i \in seps}
      nth(k) == CHOOSE p \in starts : Cardinality({q \in starts : q < p}) = k - 1
      piece(p) ==
        LET later == {q \in seps : q >= p} IN
        IF later = {} THEN SubSeq(s, p, Len(s))
        ELSE SubSeq(s, p, (CHOOSE q \in later : \A r \in later : q <= r) - 1)
  IN [k \in 1..Cardinality(starts) |-> piece(nth(k))]

----------------------------------------------------------------------------
(* Formatter C: src/unnamed/part_003 *)

MAX_TWEET_LENGTH_C == 4000
MAX_FEATURE_LENGTH_C == 500
TARGET_TWEET_LENGTH == 800
MAX_PREVIEW_ITEMS == 4

\* faulty variant: the ellipsis is appended to MAX_FEATURE_LENGTH characters
truncateFeatureCLong(feature) ==
  IF Len(feature) <= MAX_FEATURE_LENGTH_C THEN feature
  ELSE Slice(feature, 0, MAX_FEATURE_LENGTH_C) \o "..."

truncateFeatureC(feature) ==
  IF Len(feature) <= MAX_FEATURE_LENGTH_C THEN feature
  ELSE Slice(feature, 0, MAX_FEATURE_LENGTH_C - 3) \o "..."

\* faulty variant: the third component is dropped whatever it is
formatVersionAnyPatch(v) ==
  LET parts == Split(v, ".") IN
  IF Len(parts) = 3 THEN parts[1] \o "." \o parts[2]
  ELSE v

formatVersion(v) ==
  LET parts == Split(v, ".") IN
  IF Len(parts) = 3 /\ parts[3] = "0" THEN parts[1] \o "." \o parts[2]
  ELSE v

Plural(n, word, suffix) == ToString(n) \o " " \o word \o (IF n > 1 THEN suffix ELSE "")

buildTitleTweet(v, featureCount, its) ==
  LET parts ==
        (IF featureCount > 0 THEN <<Plural(featureCount, "feature", "s")>> ELSE <<>>)
        \o (IF Len(its.bugFixes) > 0 THEN <<Plural(Len(its.bugFixes), "bug fix", "es")>> ELSE <<>>)
        \o (IF Len(its.docs) > 0 THEN <<Plural(Len(its.docs), "doc", "s")>> ELSE <<>>)
        \o (IF Len(its.chores) > 0 THEN <<Plural(Len(its.chores), "chore", "s")>> ELSE <<>>)
      countLine ==
        IF Len(parts) = 0 THEN "Minor updates."
        ELSE IF Len(parts) = 1 THEN parts[1] \o "."
        ELSE IF Len(parts) = 2 THEN parts[1] \o " and " \o parts[2] \o "."
        ELSE Join(SubSeq(parts, 1, Len(parts) - 1), ", ")
               \o ", and " \o parts[Len(parts)] \o "."
  IN "Codex " \o formatVersion(v) \o " is out.\n\n" \o countLine
       \o "\n\nDetails in thread " \o DownArrow

buildCtaTweet(url) == "Full notes: " \o url

\* faulty variant: a feature is appended whatever the length it gives
RECURSIVE buildFeatureTweetsLoopNoSplit(_, _, _, _)
buildFeatureTweetsLoopNoSplit(fs, i, tw, currentTweet) ==
  IF i > Len(fs) THEN <<tw, currentTweet>>
  ELSE buildFeatureTweetsLoopNoSplit(fs, i + 1, tw,
                                     currentTweet \o "\n" \o Bullet \o " " \o fs[i])

\* the for loop of buildFeatureTweets; returns <<tweets, currentTweet>>
RECURSIVE buildFeatureTweetsLoop(_, _, _, _)
buildFeatureTweetsLoop(fs, i, tw, currentTweet) ==
  IF i > Len(fs) THEN <<tw, currentTweet>>
  ELSE
    LET line == "\n" \o Bullet \o " " \o fs[i] IN
    IF Len(currentTweet \o line) <= TARGET_TWEET_LENGTH
    THEN buildFeatureTweetsLoop(fs, i + 1, tw, currentTweet \o line)
    ELSE IF currentTweet = "Features:"
    THEN buildFeatureTweetsLoop(fs, i + 1, tw, currentTweet \o line)
    ELSE buildFeatureTweetsLoop(fs, i + 1, Append(tw, currentTweet),
                                "Features (cont.):\n" \o Bullet \o " " \o fs[i])

\* faulty variant: the tweet under construction is not flushed after the loop
buildFeatureTweetsNoFlush(fs) ==
  IF Len(fs) = 0 THEN <<>>
  ELSE buildFeatureTweetsLoop(fs, 1, <<>>, "Features:")[1]

buildFeatureTweets(fs) ==
  IF Len(fs) = 0 THEN <<>>
  ELSE
    LET r == buildFeatureTweetsLoop(fs, 1, <<>>, "Features:") IN
    IF r[2] # "Features:" THEN Append(r[1], r[2]) ELSE r[1]

RECURSIVE BulletLines(_)
BulletLines(its) ==
  IF Len(its) = 0 THEN ""
  ELSE "\n" \o Bullet \o " " \o its[1] \o BulletLines(Tail(its))

\* faulty variant: the elision line counts the items after the first hidden one
buildCategorySectionOffByOne(title, its, allowTruncation) ==
  IF Len(its) = 0 THEN ""
  ELSE
    LET displayItems == IF allowTruncation
                        THEN SubSeq(its, 1, Min(MAX_PREVIEW_ITEMS, Len(its)))
                        ELSE its
        remaining == Len(its) - Len(displayItems) - 1
    IN title \o ":" \o BulletLines(displayItems)
         \o (IF remaining > 0
             THEN "\n" \o Bullet \o " " \o ToString(remaining) \o " more..."
             ELSE "")

buildCategorySection(title, its, allowTruncation) ==
  IF Len(its) = 0 THEN ""
  ELSE
    LET displayItems == IF allowTruncation
                        THEN SubSeq(its, 1, Min(MAX_PREVIEW_ITEMS, Len(its)))
                        ELSE its
        remaining == Len(its) - Len(displayItems)
    IN title \o ":" \o BulletLines(displayItems)
         \o (IF remaining > 0
             THEN "\n" \o Bullet \o " " \o ToString(remaining) \o " more..."
             ELSE "")

\* the for loop of splitCategoryIntoTweets; returns <<tweets, currentTweet, returned>>
\* where returned is TRUE when the loop left through the early return
RECURSIVE splitCategoryLoop(_, _, _, _, _, _)
splitCategoryLoop(title, its, i, tw, currentTweet, itemsInCurrentTweet) ==
  IF i >= Len(its) THEN <<tw, currentTweet, FALSE>>
  ELSE
    LET item == its[i + 1]
        line == "\n" \o Bullet \o " " \o item
        remaining == Len(its) - i - 1
    IN
    IF Len(currentTweet \o line) <= TARGET_TWEET_LENGTH
    THEN splitCategoryLoop(title, its, i + 1, tw, currentTweet \o line,
                           itemsInCurrentTweet + 1)
    ELSE IF itemsInCurrentTweet = 0
    THEN splitCategoryLoop(title, its, i + 1, tw, currentTweet \o line,
                           itemsInCurrentTweet + 1)
    ELSE IF remaining > 0 /\ Len(tw) >= 1
    THEN <<Append(tw, currentTweet \o "\n" \o Bullet \o " "
                        \o ToString(remaining + 1) \o " more..."),
           "", TRUE>>
    ELSE splitCategoryLoop(title, its, i + 1, Append(tw, currentTweet),
                           title \o " (cont.):\n" \o Bullet \o " " \o item, 1)

splitCategoryIntoTweets(title, its) ==
  IF Len(its) = 0 THEN <<>>
  ELSE
    LET singleSection == buildCategorySection(title, its, TRUE) IN
    IF Len(singleSection) <= TARGET_TWEET_LENGTH THEN <<singleSection>>
    ELSE
      LET r == splitCategoryLoop(title, its, 0, <<>>, title \o ":", 0) IN
      IF r[3] THEN r[1]
      ELSE IF r[2] # title \o ":" /\ r[2] # title \o " (cont.):"
      THEN Append(r[1], r[2])
      ELSE r[1]

\* faulty variant: every category opens a segment of its own
RECURSIVE combineCategoriesLoopApart(_, _, _, _)
combineCategoriesLoopApart(categories, k, tw, pendingContent) ==
  IF k > Len(categories) THEN <<tw, pendingContent>>
  ELSE
    LET category == categories[k] IN
    IF Len(category.items) = 0
    THEN combineCategoriesLoopApart(categories, k + 1, tw, pendingContent)
    ELSE combineCategoriesLoopApart(categories, k + 1,
           IF pendingContent # "" THEN Append(tw, pendingContent) ELSE tw,
           buildCategorySection(category.title, category.items, TRUE))

\* the for loop of combineCategories; returns <<tweets, pendingContent>>
RECURSIVE combineCategoriesLoop(_, _, _, _)
combineCategoriesLoop(categories, k, tw, pendingContent) ==
  IF k > Len(categories) THEN <<tw, pendingContent>>
  ELSE
    LET category == categories[k] IN
    IF Len(category.items) = 0
    THEN combineCategoriesLoop(categories, k + 1, tw, pendingContent)
    ELSE
      LET categoryContent == buildCategorySection(category.title, category.items, TRUE)
          separator == IF pendingContent # "" THEN "\n\n" ELSE ""
          combined == pendingContent \o separator \o categoryContent
      IN
      IF Len(combined) <= TARGET_TWEET_LENGTH
      THEN combineCategoriesLoop(categories, k + 1, tw, combined)
      ELSE IF Len(categoryContent) <= TARGET_TWEET_LENGTH
      THEN combineCategoriesLoop(categories, k + 1,
             IF pendingContent # "" THEN Append(tw, pendingContent) ELSE tw,
             categoryContent)
      ELSE
        LET tw1 == IF pendingContent # "" THEN Append(tw, pendingContent) ELSE tw
            splitTweets == splitCategoryIntoTweets(category.title, category.items)
        IN
        IF Len(splitTweets) > 0
        THEN combineCategoriesLoop(categories, k + 1,
               tw1 \o SubSeq(splitTweets, 1, Len(splitTweets) - 1),
               splitTweets[Len(splitTweets)])
        ELSE combineCategoriesLoop(categories, k + 1, tw1, "")

combineCategories(categories) ==
  LET r == combineCategoriesLoop(categories, 1, <<>>, "") IN
  IF r[2] # "" THEN Append(r[1], r[2]) ELSE r[1]

otherCategories(its) ==
  << [title |-> "Bug Fixes", items |-> its.bugFixes],
     [title |-> "Docs", items |-> its.docs],
     [title |-> "Chores", items |-> its.chores] >>

formatTweetsC(v, fs, url, its) ==
  LET truncated == Map(truncateFeatureC, fs) IN
  <<buildTitleTweet(v, Len(truncated), its)>>
    \o buildFeatureTweets(truncated)
    \o combineCategories(otherCategories(its))
    \o <<buildCtaTweet(url)>>

----------------------------------------------------------------------------
(* Formatter B: src/src/formatter.ts *)

MAX_TWEET_LENGTH_B == 280
MAX_FEATURE_LENGTH_B == 100

truncateFeatureB(feature) ==
  IF Len(feature) <= MAX_FEATURE_LENGTH_B THEN feature
  ELSE Slice(feature, 0, MAX_FEATURE_LENGTH_B - 3) \o "..."

buildHeader(v) == Rocket \o " Codex v" \o v \o " released!"

buildUrlLine(url) == "Full release notes: " \o url

buildAlsoLine(cs) ==
  LET parts ==
        (IF cs.bugFixes > 0 THEN <<Plural(cs.bugFixes, "bug fix", "es")>> ELSE <<>>)
        \o (IF cs.docs > 0 THEN <<Plural(cs.docs, "doc", "s")>> ELSE <<>>)
        \o (IF cs.chores > 0 THEN <<Plural(cs.chores, "chore", "s")>> ELSE <<>>)
  IN IF Len(parts) = 0 THEN "" ELSE "Also: " \o Join(parts, ", ")

BulletOf(f) == Bullet \o " " \o f

\* features.map((f) => `<bullet> ${f}`).join("\n")
BulletJoin(fs) == Join(Map(BulletOf, fs), "\n")

buildSingleTweetB(v, fs, url, cs) ==
  LET header == buildHeader(v)
      urlLine == buildUrlLine(url)
      alsoLine == buildAlsoLine(cs)
  IN
  IF Len(fs) = 0
  THEN IF alsoLine # ""
       THEN header \o "\n\n" \o alsoLine \o "\n\n" \o urlLine
       ELSE header \o "\n\n" \o urlLine
  ELSE IF alsoLine # ""
       THEN header \o "\n\nNew Features:\n" \o BulletJoin(fs) \o "\n\n" \o alsoLine
              \o "\n\n" \o urlLine
       ELSE header \o "\n\nNew Features:\n" \o BulletJoin(fs) \o "\n\n" \o urlLine

\* faulty variant: no room reserved for the numbering
numberingSuffixNone == ""

numberingSuffix == " (XX/XX)"

\* the first for loop of formatTweets: number of features taken by the first tweet
RECURSIVE featuresInFirstB(_, _, _)
featuresInFirstB(firstTweetContent, remainingFeatures, n) ==
  IF n >= Len(remainingFeatures) THEN n
  ELSE
    LET featureLine == BulletOf(remainingFeatures[n + 1])
        currentFeatures == IF n > 0
                           THEN BulletJoin(SubSeq(remainingFeatures, 1, n)) \o "\n"
                           ELSE ""
        testContent == firstTweetContent \o "\n" \o currentFeatures \o featureLine
                         \o numberingSuffix
    IN IF Len(testContent) <= MAX_TWEET_LENGTH_B
       THEN featuresInFirstB(firstTweetContent, remainingFeatures, n + 1)
       ELSE n

\* the inner for loop of the while loop: number of features taken by a middle tweet
RECURSIVE featuresInMiddleB(_, _)
featuresInMiddleB(remainingFeatures, n) ==
  IF n >= Len(remainingFeatures) THEN n
  ELSE
    LET featureLine == BulletOf(remainingFeatures[n + 1])
        currentLines == IF n > 0
                        THEN BulletJoin(SubSeq(remainingFeatures, 1, n)) \o "\n"
                        ELSE ""
        testContent == currentLines \o featureLine \o numberingSuffix
    IN IF Len(testContent) <= MAX_TWEET_LENGTH_B
       THEN featuresInMiddleB(remainingFeatures, n + 1)
       ELSE n

\* formatTweets up to its while loop: the first tweet is built; the record
\* holds the variables of the loop
firstTweetB(v, truncated, url, cs) ==
  LET header == buildHeader(v)
      urlLine == buildUrlLine(url)
      alsoLine == buildAlsoLine(cs)
      firstTweetContent == header \o "\n\nNew Features:"
      n == featuresInFirstB(firstTweetContent, truncated, 0)
  IN [tweetContents |->
        <<IF n > 0
          THEN firstTweetContent \o "\n" \o BulletJoin(SubSeq(truncated, 1, n))
          ELSE firstTweetContent>>,
      remainingFeatures |-> SubSeq(truncated, n + 1, Len(truncated)),
      lastTweetFooter |-> IF alsoLine # "" THEN alsoLine \o "\n\n" \o urlLine
                          ELSE urlLine,
      footerAdded |-> FALSE]

\* the tweet one pass of the while loop pushes, n being the number of
\* features the inner for loop took
middleTweetB(remainingFeatures, n) ==
  IF n > 0 THEN BulletJoin(SubSeq(remainingFeatures, 1, n))
  ELSE BulletOf(remainingFeatures[1])

\* one pass of the while loop, entered with remainingFeatures.length > 0
whileStepB(st) ==
  LET remainingFeatureLines == BulletJoin(st.remainingFeatures)
      lastTweetCandidate == remainingFeatureLines \o "\n\n" \o st.lastTweetFooter
                              \o numberingSuffix
      n == featuresInMiddleB(st.remainingFeatures, 0)
  IN
  IF Len(lastTweetCandidate) <= MAX_TWEET_LENGTH_B
  THEN [st EXCEPT !.tweetContents =
                    Append(@, remainingFeatureLines \o "\n\n" \o st.lastTweetFooter),
                  !.footerAdded = TRUE]
  ELSE [st EXCEPT !.tweetContents = Append(@, middleTweetB(st.remainingFeatures, n)),
                  !.remainingFeatures = IF n > 0 THEN SubSeq(@, n + 1, Len(@))
                                        ELSE Tail(@)]

\* while (remainingFeatures.length > 0), left by break once the footer is added
whileEndsB(st) == Len(st.remainingFeatures) = 0 \/ st.footerAdded

RECURSIVE whileLoopB(_)
whileLoopB(st) == IF whileEndsB(st) THEN st ELSE whileLoopB(whileStepB(st))

\* formatTweets after its while loop: the footer tweet if it is still due,
\* then the numbering
numberTweetsB(st) ==
  LET tweetContents == IF ~st.footerAdded
                       THEN Append(st.tweetContents, st.lastTweetFooter)
                       ELSE st.tweetContents
      totalTweets == Len(tweetContents)
  IN [i \in 1..totalTweets |->
        tweetContents[i] \o " (" \o ToString(i) \o "/" \o ToString(totalTweets) \o ")"]

\* formatTweets after the single-tweet attempt: the numbered thread
threadB(v, truncated, url, cs) ==
  numberTweetsB(whileLoopB(firstTweetB(v, truncated, url, cs)))

\* faulty variant: the single tweet is measured against the long-form limit
formatTweetsBWrongLimit(v, fs, url, cs) ==
  LET truncated == Map(truncateFeatureB, fs)
      singleTweet == buildSingleTweetB(v, truncated, url, cs)
  IN IF Len(singleTweet) <= MAX_TWEET_LENGTH_C THEN <<singleTweet>>
     ELSE threadB(v, truncated, url, cs)

formatTweetsB(v, fs, url, cs) ==
  LET truncated == Map(truncateFeatureB, fs)
      singleTweet == buildSingleTweetB(v, truncated, url, cs)
  IN IF Len(singleTweet) <= MAX_TWEET_LENGTH_B THEN <<singleTweet>>
     ELSE threadB(v, truncated, url, cs)

----------------------------------------------------------------------------
(* Formatter A: src/unnamed/part_002 *)

MAX_TWEET_LENGTH_A == 280
MAX_FEATURE_LENGTH_A == 50

truncateFeatureA(feature) ==
  IF Len(feature) <= MAX_FEATURE_LENGTH_A THEN feature
  ELSE Slice(feature, 0, MAX_FEATURE_LENGTH_A - 3) \o "..."

BulletOfTruncatedA(f) == Bullet \o " " \o truncateFeatureA(f)

buildFeatureList(fs) ==
  IF Len(fs) = 0 THEN "" ELSE Join(Map(BulletOfTruncatedA, fs), "\n")

buildSingleTweetA(v, fs, url) ==
  LET header == buildHeader(v)
      featureList == buildFeatureList(fs)
      urlLine == buildUrlLine(url)
  IN IF Len(fs) = 0 THEN header \o "\n\n" \o urlLine
     ELSE header \o "\n\nNew Features:\n" \o featureList \o "\n\n" \o urlLine

continuation == "(cont...)"

RECURSIVE featuresInFirstA(_, _, _)
featuresInFirstA(firstTweetContent, remainingFeatures, n) ==
  IF n >= Len(remainingFeatures) THEN n
  ELSE
    LET featureLine == BulletOf(remainingFeatures[n + 1])
        testContent == firstTweetContent \o "\n"
                         \o BulletJoin(SubSeq(remainingFeatures, 1, n))
                         \o (IF n > 0 THEN "\n" ELSE "")
                         \o featureLine \o "\n\n" \o continuation
    IN IF Len(testContent) <= MAX_TWEET_LENGTH_A
       THEN featuresInFirstA(firstTweetContent, remainingFeatures, n + 1)
       ELSE n

RECURSIVE featuresInMiddleA(_, _)
featuresInMiddleA(remainingFeatures, n) ==
  IF n >= Len(remainingFeatures) THEN n
  ELSE
    LET featureLine == BulletOf(remainingFeatures[n + 1])
        currentLines == IF n > 0
                        THEN BulletJoin(SubSeq(remainingFeatures, 1, n)) \o "\n"
                        ELSE ""
        testContent == currentLines \o featureLine \o "\n\n" \o continuation
    IN IF Len(testContent) <= MAX_TWEET_LENGTH_A
       THEN featuresInMiddleA(remainingFeatures, n + 1)
       ELSE n

\* the while loop of formatTweets
RECURSIVE middleTweetsA(_, _, _)
middleTweetsA(remainingFeatures, urlLine, tw) ==
  IF Len(remainingFeatures) = 0 THEN tw
  ELSE
    LET lastTweetCandidate == BulletJoin(remainingFeatures) \o "\n\n" \o urlLine IN
    IF Len(lastTweetCandidate) <= MAX_TWEET_LENGTH_A
    THEN Append(tw, lastTweetCandidate)
    ELSE
      LET n == featuresInMiddleA(remainingFeatures, 0) IN
      IF n > 0
      THEN middleTweetsA(SubSeq(remainingFeatures, n + 1, Len(remainingFeatures)), urlLine,
                         Append(tw, BulletJoin(SubSeq(remainingFeatures, 1, n))
                                      \o "\n\n" \o continuation))
      ELSE middleTweetsA(Tail(remainingFeatures), urlLine,
                         Append(tw, BulletOf(remainingFeatures[1])
                                      \o "\n\n" \o continuation))

formatTweetsA(v, fs, url) ==
  LET truncated == Map(truncateFeatureA, fs)
      singleTweet == buildSingleTweetA(v, truncated, url)
  IN
  IF Len(singleTweet) <= MAX_TWEET_LENGTH_A THEN <<singleTweet>>
  ELSE
    LET header == buildHeader(v)
        urlLine == buildUrlLine(url)
        firstTweetContent == header \o "\n\nNew Features:"
        n == featuresInFirstA(firstTweetContent, truncated, 0)
        first == IF n > 0
                 THEN firstTweetContent \o "\n" \o BulletJoin(SubSeq(truncated, 1, n))
                        \o "\n\n" \o continuation
                 ELSE firstTweetContent \o "\n\n" \o continuation
    IN middleTweetsA(SubSeq(truncated, n + 1, Len(truncated)), urlLine, <<first>>)

----------------------------------------------------------------------------
(* Inputs *)

FeatChar == <<"a", "b", "c", "d", "e", "f", "g", "h">>
ItemChar == <<"p", "q", "r", "s", "t", "u", "w", "x">>

\* the i-th feature of a list is Rep(FeatChar[i], n): features of one list differ
FeatureLists(max) ==
  UNION { { [i \in 1..n |-> Rep(FeatChar[i], l[i])] : l \in [1..n -> FeatureLens] }
          : n \in 0..max }

ItemLists(max) ==
  UNION { { [i \in 1..n |-> Rep(ItemChar[i], l[i])] : l \in [1..n -> ItemLens] }
          : n \in 0..max }

NoItems == [bugFixes |-> <<>>, docs |-> <<>>, chores |-> <<>>]
NoCounts == [bugFixes |-> 0, docs |-> 0, chores |-> 0]

Versions ==
  {"0.92.0", "0.92.1", "1.0", "1.0.0", "0.0.0", "0.92.10", "0.92.00",
   "1.2.3.0", "0.92.0-alpha.1", "2"}

UrlOf(v) == "https://github.com/openai/codex/releases/tag/v" \o v

CountsOf(its) ==
  [bugFixes |-> Len(its.bugFixes), docs |-> Len(its.docs), chores |-> Len(its.chores)]

\* feature-centred inputs
FeatureInputs ==
  { [version |-> "0.92.0", features |-> fs, items |-> NoItems, counts |-> NoCounts]
    : fs \in FeatureLists(MaxFeatures) }

\* version- and tally-centred inputs
TallyInputs ==
  { [version |-> v, features |-> fs, items |-> its, counts |-> CountsOf(its)]
    : v \in Versions,
      fs \in {<<>>, <<"New CLI command", "Bug fixes">>},
      its \in { NoItems,
                [bugFixes |-> <<"Fix 1", "Fix 2">>, docs |-> <<>>, chores |-> <<"Chore 1">>],
                [bugFixes |-> <<"Fix 1">>, docs |-> <<"Doc 1">>, chores |-> <<"Chore 1">>] } }

\* secondary-category-centred inputs
CategoryInputs ==
  { [version |-> "0.92.0", features |-> fs,
     items |-> [bugFixes |-> b, docs |-> d, chores |-> c],
     counts |-> CountsOf([bugFixes |-> b, docs |-> d, chores |-> c])]
    : fs \in {<<>>, <<"Feature 1">>},
      b \in ItemLists(MaxItems),
      d \in {<<>>, <<Rep("y", 390), Rep("z", 390)>>},
      c \in {<<>>, <<"Chore 1">>} }

FormatInputs == FeatureInputs \cup TallyInputs \cup CategoryInputs

----------------------------------------------------------------------------
(* Runner: src/src/index.ts, with rss.ts (src/unnamed/part_000) and          *)
(* twitter.ts (src/unnamed/part_008)                                        *)

NoFile == "<no file>"
Null == "<null>"

IsSpace(c) == c \in {" ", "\n", "\t", "\r"}

\* String.prototype.trim
Trim(s) ==
  LET keep == {i \in 1..Len(s) : ~IsSpace(CharAt(s, i))} IN
  IF keep = {} THEN ""
  ELSE SubSeq(s, CHOOSE i \in keep : \A j \in keep : i <= j,
                 CHOOSE i \in keep : \A j \in keep : i >= j)

\* faulty variant: the file content is returned with its trailing newline
readLastPostedVersionRaw(file) == IF file # NoFile THEN file ELSE Null

readLastPostedVersion(file) == IF file # NoFile THEN Trim(file) ELSE Null

\* faulty variant: the version is written without the newline
writeLastPostedVersionBare(v) == v

writeLastPostedVersion(v) == v \o "\n"

DigitValue(c) ==
  CASE c = "0" -> 0 [] c = "1" -> 1 [] c = "2" -> 2 [] c = "3" -> 3 [] c = "4" -> 4
    [] c = "5" -> 5 [] c = "6" -> 6 [] c = "7" -> 7 [] c = "8" -> 8 [] c = "9" -> 9

RECURSIVE DigitsValue(_)
DigitsValue(s) ==
  IF s = "" THEN 0
  ELSE 10 * DigitsValue(SubSeq(s, 1, Len(s) - 1)) + DigitValue(CharAt(s, Len(s)))

\* Number(s) for decimal digits with optional surrounding white space
\* (Number("") is 0)
Number(s) == DigitsValue(Trim(s))

NumberParts(v) == LET p == Split(v, ".") IN [i \in 1..Len(p) |-> Number(p[i])]

RECURSIVE compareFrom(_, _, _)
compareFrom(aParts, bParts, i) ==
  IF i > Max(Len(aParts), Len(bParts)) THEN 0
  ELSE
    LET aVal == IF i <= Len(aParts) THEN aParts[i] ELSE 0
        bVal == IF i <= Len(bParts) THEN bParts[i] ELSE 0
    IN IF aVal # bVal THEN aVal - bVal ELSE compareFrom(aParts, bParts, i + 1)

\* faulty variant: components past the shorter version are not looked at
compareVersionsTruncated(a, b) ==
  LET n == Min(Len(NumberParts(a)), Len(NumberParts(b)))
  IN compareFrom(SubSeq(NumberParts(a), 1, n), SubSeq(NumberParts(b), 1, n), 1)

compareVersions(a, b) == compareFrom(NumberParts(a), NumberParts(b), 1)

\* Array.prototype.sort with a comparator (stable)
RECURSIVE InsertSorted(_, _, _)
InsertSorted(Cmp(_, _), sorted, x) ==
  IF Len(sorted) = 0 THEN <<x>>
  ELSE IF Cmp(sorted[Len(sorted)], x) <= 0 THEN Append(sorted, x)
  ELSE Append(InsertSorted(Cmp, SubSeq(sorted, 1, Len(sorted) - 1), x),
              sorted[Len(sorted)])

RECURSIVE SortBy(_, _)
SortBy(Cmp(_, _), seq) ==
  IF Len(seq) = 0 THEN <<>>
  ELSE InsertSorted(Cmp, SortBy(Cmp, SubSeq(seq, 1, Len(seq) - 1)), seq[Len(seq)])

\* fetchOk = FALSE: the fetch threw or the response was not ok.
\* The result Release | null is a sequence of at most one release.
getLatestRelease(fd, fetchOk) ==
  IF ~fetchOk THEN <<>>
  ELSE IF Len(fd) > 0 THEN <<fd[1]>> ELSE <<>>

getAllReleases(fd, fetchOk) == IF ~fetchOk THEN <<>> ELSE fd

\* faulty variant: the filter keeps an entry equal to v
getReleasesNotOlderThan(v, fd, fetchOk) ==
  LET newer(r) == compareVersions(r.version, v) >= 0
      byVersion(a, b) == compareVersions(a.version, b.version)
  IN SortBy(byVersion, Filter(newer, getAllReleases(fd, fetchOk)))

getReleasesNewerThan(v, fd, fetchOk) ==
  LET newer(r) == compareVersions(r.version, v) > 0
      byVersion(a, b) == compareVersions(a.version, b.version)
  IN SortBy(byVersion, Filter(newer, getAllReleases(fd, fetchOk)))

NoReply == 0

\* faulty variant: every later tweet replies to the first tweet of the thread
replyTargetFirst(k, ids) == IF k = 1 THEN NoReply ELSE ids[1]

\* in_reply_to_tweet_id of the k-th posting call: none for tweets[0],
\* previousTweetId (the id returned for the preceding tweet) afterwards
replyTarget(k, ids) == IF k = 1 THEN NoReply ELSE ids[k - 1]

\* faulty variant: postThread returns after its first tweet
postThreadReturnsEarly(k, tw) == TRUE

\* postThread's loop condition i < tweets.length fails after k tweets
postThreadReturns(k, tw) == ~(k < Len(tw))

\* the tweets postRelease computes for a release; release.features stands for
\* parseNewFeatures(release.body).features
tweetsOf(release) == formatTweetsB(release.version, release.features, release.url, NoCounts)

\* the releases main hands to postRelease, in order
releasesToPost(bf, last, fd, fetchOk) ==
  IF bf /\ last # Null /\ last # ""
  THEN getReleasesNewerThan(last, fd, fetchOk)
  ELSE
    LET release == getLatestRelease(fd, fetchOk) IN
    IF release = <<>> THEN <<>>
    ELSE IF last = release[1].version THEN <<>>
    ELSE release

Release(v, fs) == [version |-> v, url |-> UrlOf(v), features |-> fs]

FeedReleases ==
  { Release("0.91.0", <<>>),
    Release("0.92.0", <<Rep("a", 100), Rep("b", 100)>>),
    Release("0.93.0", <<"New CLI command">>) }

Feeds == UNION { [1..n -> FeedReleases] : n \in 0..MaxFeed }

StateFiles == {NoFile, ""} \cup {writeLastPostedVersion(r.version) : r \in FeedReleases}

RunUnused ==
  /\ feed = <<>>
  /\ stateFile = NoFile
  /\ pc = "idle"
  /\ dryRun = FALSE
  /\ backfill = FALSE
  /\ lastPosted = Null
  /\ queue = <<>>
  /\ thread = <<>>
  /\ tweetIds = <<>>
  /\ posted = <<>>
  /\ run = 0
  /\ runLog = <<>>
  /\ reads = 0
  /\ writes = 0

LibUnused ==
  /\ fn = "none"
  /\ args = <<>>
  /\ result = <<>>
  /\ status = "unused"

FormatUnused ==
  /\ version = ""
  /\ features = <<>>
  /\ releaseUrl = ""
  /\ items = NoItems
  /\ counts = NoCounts
  /\ fmt = "none"
  /\ truncatedFeatures = <<>>
  /\ tweets = <<>>

RunInit ==
  /\ feed \in Feeds
  /\ stateFile \in StateFiles
  /\ pc = "idle"
  /\ dryRun = FALSE
  /\ backfill = FALSE
  /\ lastPosted = Null
  /\ queue = <<>>
  /\ thread = <<>>
  /\ tweetIds = <<>>
  /\ posted = <<>>
  /\ run = 0
  /\ runLog = <<>>
  /\ reads = 0
  /\ writes = 0
  /\ FormatUnused
  /\ LibUnused

SetOutcome(log, o) == [log EXCEPT ![Len(log)].outcome = o]

\* A process starts: main() up to its first posting call (or to its end).
\* In DRY_RUN no call is awaited on the way, so every release of the queue is
\* handled by postRelease (which writes the checkpoint) within this step.
Main(dry, bf, fetchOk) ==
  /\ pc \in {"idle", "done", "failed"}
  /\ run < MaxRuns
  /\ LET last == readLastPostedVersion(stateFile)
         rs == releasesToPost(bf, last, feed, fetchOk)
         entry == [dry |-> dry, backfill |-> bf, fetchOk |-> fetchOk,
                   startFile |-> stateFile, lastPosted |-> last,
                   toPost |-> rs,
                   outcome |-> "running"]
     IN
     /\ run' = run + 1
     /\ dryRun' = dry
     /\ backfill' = bf
     /\ lastPosted' = last
     /\ reads' = 1
     /\ tweetIds' = <<>>
     /\ IF Len(rs) = 0
        THEN /\ pc' = "done"
             /\ queue' = <<>>
             /\ thread' = <<>>
             /\ writes' = 0
             /\ runLog' = Append(runLog, [entry EXCEPT !.outcome = "done"])
             /\ UNCHANGED stateFile
        ELSE IF dry
        THEN /\ pc' = "done"
             /\ queue' = <<>>
             /\ thread' = <<>>
             /\ writes' = Len(rs)
             /\ stateFile' = writeLastPostedVersion(rs[Len(rs)].version)
             /\ runLog' = Append(runLog, [entry EXCEPT !.outcome = "done"])
        ELSE /\ pc' = "posting"
             /\ queue' = rs
             /\ thread' = tweetsOf(rs[1])
             /\ writes' = 0
             /\ runLog' = Append(runLog, entry)
             /\ UNCHANGED stateFile
  /\ UNCHANGED <<feed, posted, fvars, lvars>>

\* client.v2.tweet resolves: postThread records the id; after the last tweet
\* postThread returns, postRelease writes the checkpoint and main moves on.
PostTweetOk ==
  /\ pc = "posting"
  /\ LET k == Len(tweetIds) + 1
         id == Len(posted) + 1
         replyTo == replyTarget(k, tweetIds)
         call == [run |-> run, version |-> queue[1].version, k |-> k,
                  text |-> thread[k], replyTo |-> replyTo, id |-> id]
     IN
     /\ posted' = Append(posted, call)
     /\ IF ~postThreadReturns(k, thread)
        THEN /\ tweetIds' = Append(tweetIds, id)
             /\ UNCHANGED <<stateFile, queue, thread, pc, writes, runLog>>
        ELSE /\ stateFile' = writeLastPostedVersion(queue[1].version)
             /\ writes' = writes + 1
             /\ queue' = Tail(queue)
             /\ tweetIds' = <<>>
             /\ IF Len(queue) > 1
                THEN /\ thread' = tweetsOf(queue[2])
                     /\ UNCHANGED <<pc, runLog>>
                ELSE /\ thread' = <<>>
                     /\ pc' = "done"
                     /\ runLog' = SetOutcome(runLog, "done")
  /\ UNCHANGED <<feed, dryRun, backfill, lastPosted, run, reads, fvars, lvars>>

\* client.v2.tweet rejects: the error leaves postThread, postRelease and main,
\* and main().catch ends the process with exit code 1.
PostTweetFail ==
  /\ pc = "posting"
  /\ pc' = "failed"
  /\ runLog' = SetOutcome(runLog, "failed")
  /\ UNCHANGED <<feed, stateFile, dryRun, backfill, lastPosted, queue, thread, tweetIds,
                 posted, run, reads, writes, fvars, lvars>>

RunNext ==
  \/ \E dry \in BOOLEAN, bf \in BOOLEAN, fetchOk \in BOOLEAN : Main(dry, bf, fetchOk)
  \/ PostTweetOk
  \/ PostTweetFail

RunSpec == RunInit /\ [][RunNext]_vars

----------------------------------------------------------------------------
(* formatTweets as a one-call state machine *)

FormatInit ==
  \E in \in FormatInputs :
    /\ version = in.version
    /\ features = in.features
    /\ releaseUrl = UrlOf(in.version)
    /\ items = in.items
    /\ counts = in.counts
    /\ fmt = "none"
    /\ truncatedFeatures = <<>>
    /\ tweets = <<>>
    /\ RunUnused
    /\ LibUnused

FormatTweetsC ==
  /\ fmt = "none"
  /\ fmt' = "C"
  /\ truncatedFeatures' = Map(truncateFeatureC, features)
  /\ tweets' = formatTweetsC(version, features, releaseUrl, items)
  /\ UNCHANGED <<version, features, releaseUrl, items, counts, rvars, lvars>>

FormatTweetsB ==
  /\ fmt = "none"
  /\ fmt' = "B"
  /\ truncatedFeatures' = Map(truncateFeatureB, features)
  /\ tweets' = formatTweetsB(version, features, releaseUrl, counts)
  /\ UNCHANGED <<version, features, releaseUrl, items, counts, rvars, lvars>>

FormatTweetsA ==
  /\ fmt = "none"
  /\ fmt' = "A"
  /\ truncatedFeatures' = Map(truncateFeatureA, features)
  /\ tweets' = formatTweetsA(version, features, releaseUrl)
  /\ UNCHANGED <<version, features, releaseUrl, items, counts, rvars, lvars>>

FormatNext == FormatTweetsA \/ FormatTweetsB \/ FormatTweetsC

FormatSpec == FormatInit /\ [][FormatNext]_vars

----------------------------------------------------------------------------
(* Reading a thread back: lines, bullets, headings *)

IsBulletLine(l) == StartsWith(l, Bullet \o " ")

IsMoreLine(l) == IsBulletLine(l) /\ EndsWith(l, " more...")

IsHeadingOf(title, h) == h = title \o ":" \/ h = title \o " (cont.):"

\* the bullet lines among lines[j..] that stand under a heading of the category,
\* heading being the last heading line read so far
RECURSIVE BulletsUnder(_, _, _, _)
BulletsUnder(lines, j, heading, title) ==
  IF j > Len(lines) THEN <<>>
  ELSE
    LET l == lines[j] IN
    IF IsBulletLine(l)
    THEN (IF IsHeadingOf(title, heading) THEN <<l>> ELSE <<>>)
           \o BulletsUnder(lines, j + 1, heading, title)
    ELSE BulletsUnder(lines, j + 1, IF l = "" THEN heading ELSE l, title)

\* the bullet lines of a category over the whole thread, in order
RECURSIVE CategoryBulletsFrom(_, _)
CategoryBulletsFrom(t, title) ==
  IF t > Len(tweets) THEN <<>>
  ELSE BulletsUnder(Split(tweets[t], "\n"), 1, "", title)
         \o CategoryBulletsFrom(t + 1, title)

CategoryBullets(title) == CategoryBulletsFrom(1, title)

IsItemLine(l) == ~IsMoreLine(l)

DisplayedItems(title) == Filter(IsItemLine, CategoryBullets(title))

MoreLines(title) == Filter(IsMoreLine, CategoryBullets(title))

MaxTweetLength == [A |-> MAX_TWEET_LENGTH_A, B |-> MAX_TWEET_LENGTH_B, C |-> MAX_TWEET_LENGTH_C]

MaxFeatureLength ==
  [A |-> MAX_FEATURE_LENGTH_A, B |-> MAX_FEATURE_LENGTH_B, C |-> MAX_FEATURE_LENGTH_C]

AllItems == items.bugFixes \o items.docs \o items.chores

----------------------------------------------------------------------------
(* Claims *)

\* C1: for features of at most 300 characters and secondary items within the
\* per-item limit, every tweet of the thread returned by formatTweets
\* (formatter.ts and part_003) has length at most MAX_TWEET_LENGTH.
C1_TweetsWithinMax ==
  ( /\ fmt \in {"B", "C"}
    /\ \A i \in 1..Len(features) : Len(features[i]) <= 300
    /\ \A i \in 1..Len(AllItems) : Len(AllItems[i]) <= MAX_FEATURE_LENGTH_C )
  => \A t \in 1..Len(tweets) : Len(tweets[t]) <= MaxTweetLength[fmt]

C1_Witness ==
  /\ fmt = "B"
  /\ Len(features) = MaxFeatures
  /\ \A i \in 1..Len(features) : Len(features[i]) <= 300
  /\ Len(tweets) >= 3
  /\ \E t \in 1..Len(tweets) : Len(tweets[t]) >= MAX_TWEET_LENGTH_B - 5

\* C2: every input feature appears, verbatim or in its truncated form, as a
\* bullet of some tweet of the thread, and no tweet carrying features holds
\* an "N more..." elision.
C2_NoFeatureDropped ==
  fmt # "none" =>
    /\ \A i \in 1..Len(features) :
         \E t \in 1..Len(tweets) : Contains(tweets[t], BulletOf(truncatedFeatures[i]))
    /\ \A i \in 1..Len(features) :
         truncatedFeatures[i] =
           IF Len(features[i]) <= MaxFeatureLength[fmt] THEN features[i]
           ELSE SubSeq(features[i], 1, MaxFeatureLength[fmt] - 3) \o "..."
    /\ \A t \in 1..Len(tweets) :
         (\E i \in 1..Len(features) : Contains(tweets[t], BulletOf(truncatedFeatures[i])))
           /\ Len(AllItems) = 0
         => ~Contains(tweets[t], "more...")

C2_Witness ==
  /\ fmt = "C"
  /\ Len(features) >= 3
  /\ \E t \in 1..Len(tweets) : StartsWith(tweets[t], "Features (cont.):")
  /\ \E i \in 1..Len(features) : Len(features[i]) > MAX_FEATURE_LENGTH_C

\* C3: for each secondary category, a "K more..." line states exactly the
\* number of items of the category that are not displayed in any of its
\* segments, and without such a line every item is displayed.
C3_ElisionCountExact ==
  fmt = "C" =>
    \A c \in 1..3 :
      LET cat == otherCategories(items)[c]
          n == Len(cat.items)
          bullets == CategoryBullets(cat.title)
          shown == Len(Filter(IsItemLine, bullets))
          more == Filter(IsMoreLine, bullets)
      IN IF Len(more) = 0 THEN shown = n
         ELSE /\ Len(more) = 1
              /\ more[1] = Bullet \o " " \o ToString(n - shown) \o " more..."

\* the split path: a continuation segment of Bug Fixes that ends in an elision
C3_Witness ==
  /\ fmt = "C"
  /\ \E t \in 1..Len(tweets) :
       /\ StartsWith(tweets[t], "Bug Fixes (cont.):")
       /\ EndsWith(tweets[t], " more...")
  /\ Len(DisplayedItems("Bug Fixes")) < Len(items.bugFixes)

\* C4: truncateFeature returns a string of at most MAX_FEATURE_LENGTH unchanged
\* and turns a longer one into its first MAX_FEATURE_LENGTH-3 characters
\* followed by "...", of length exactly MAX_FEATURE_LENGTH.
C4_TruncateFeature ==
  fmt # "none" =>
    \A i \in 1..Len(features) :
      LET f == features[i]
          t == truncatedFeatures[i]
          max == MaxFeatureLength[fmt]
      IN IF Len(f) <= max THEN t = f
         ELSE /\ Len(t) = max
              /\ SubSeq(t, 1, max - 3) = SubSeq(f, 1, max - 3)
              /\ SubSeq(t, max - 2, max) = "..."

C4_Witness ==
  /\ fmt = "C"
  /\ \E i \in 1..Len(features) : Len(features[i]) > MAX_FEATURE_LENGTH_C
  /\ \E i \in 1..Len(features) :
       Len(features[i]) > 0 /\ Len(features[i]) <= MAX_FEATURE_LENGTH_C

\* C5: per-item truncation reaches the secondary items: no bug-fix, doc or
\* chore item longer than the per-item maximum appears untruncated in a
\* segment produced by formatTweets (part_003).
C5_SecondaryItemsTruncated ==
  fmt = "C" =>
    \A i \in 1..Len(AllItems) :
      Len(AllItems[i]) > MAX_FEATURE_LENGTH_C
        => \A t \in 1..Len(tweets) : ~Contains(tweets[t], AllItems[i])

\* C6: the thread returned by formatTweets (part_002 and formatter.ts) holds
\* the release URL in its last tweet and in no earlier tweet.
C6_UrlInLastTweetOnly ==
  fmt \in {"A", "B"} =>
    /\ Contains(tweets[Len(tweets)], releaseUrl)
    /\ \A t \in 1..(Len(tweets) - 1) : ~Contains(tweets[t], releaseUrl)

C8_EmptyReleaseOneSegment ==
  (fmt = "C" /\ Len(features) = 0 /\ Len(AllItems) = 0) =>
    /\ Len(tweets) = 1
    /\ Contains(tweets[1], formatVersion(version))
    /\ Contains(tweets[1], "Minor updates.")
    /\ Contains(tweets[1], releaseUrl)

----------------------------------------------------------------------------
(* Reading the run history *)

CurrentRun == runLog[Len(runLog)]

\* main's else branch: BACKFILL unset, or no checkpoint to backfill from
NormalMode(e) == ~(e.backfill /\ e.lastPosted # Null /\ e.lastPosted # "")

FromRun(r) == LET inRun(c) == c.run = r IN Filter(inRun, posted)

TextOf(c) == c.text

\* the checkpoint file as process r left it
FileAfter(r) == IF r < Len(runLog) THEN runLog[r + 1].startFile ELSE stateFile

\* every tweet of the release's thread was posted by process r
PostedInFull(release, r) ==
  \A k \in 1..Len(tweetsOf(release)) :
    \E j \in 1..Len(posted) :
      /\ posted[j].run = r
      /\ posted[j].version = release.version
      /\ posted[j].k = k
      /\ posted[j].text = tweetsOf(release)[k]

\* C9: in a non-dry run the checkpoint holds a release's version only once
\* every segment of that release's thread has been posted; a posting failure
\* ends the run with the checkpoint as it was before the failing release;
\* a release without features is posted and checkpointed like any other.
C9_CheckpointAfterFullThread ==
  (run > 0 /\ ~dryRun) =>
    LET e == CurrentRun
        completed == Len(e.toPost) - Len(queue)
    IN
    /\ stateFile = IF completed = 0 THEN e.startFile
                   ELSE writeLastPostedVersion(e.toPost[completed].version)
    /\ writes = completed
    /\ \A j \in 1..completed : PostedInFull(e.toPost[j], run)
    /\ pc = "done" => completed = Len(e.toPost)
    /\ pc = "failed" => completed < Len(e.toPost)

\* the second tweet of a thread was rejected
C9_Witness ==
  /\ pc = "failed"
  /\ ~dryRun
  /\ Len(tweetIds) = 1
  /\ Len(thread) = 2
  /\ stateFile = CurrentRun.startFile
  /\ stateFile # writeLastPostedVersion(queue[1].version)

\* C10: a normal-mode run that finds the checkpoint equal to the latest
\* release's version posts nothing and does not write the checkpoint; two
\* consecutive successful normal-mode runs over the same feed post the latest
\* release exactly once.
C10_PostedOnce ==
  /\ \A r \in 1..Len(runLog) :
       LET e == runLog[r] IN
       (NormalMode(e) /\ e.fetchOk /\ Len(feed) > 0 /\ e.lastPosted = feed[1].version)
         => /\ FromRun(r) = <<>>
            /\ FileAfter(r) = e.startFile
            /\ e.toPost = <<>>
            /\ r = run => writes = 0
  /\ \A r \in 1..(Len(runLog) - 1) :
       LET e1 == runLog[r]
           e2 == runLog[r + 1]
           ok(e) == NormalMode(e) /\ ~e.dry /\ e.fetchOk /\ e.outcome = "done"
       IN (ok(e1) /\ ok(e2) /\ Len(feed) > 0)
            => /\ FromRun(r + 1) = <<>>
               /\ Map(TextOf, FromRun(r)) =
                    IF e1.lastPosted = feed[1].version THEN <<>> ELSE tweetsOf(feed[1])

C10_Witness ==
  /\ Len(runLog) = 2
  /\ \A r \in 1..2 :
       NormalMode(runLog[r]) /\ ~runLog[r].dry /\ runLog[r].fetchOk
         /\ runLog[r].outcome = "done"
  /\ Len(FromRun(1)) = 2
  /\ FromRun(2) = <<>>
  /\ runLog[1].startFile # NoFile

----------------------------------------------------------------------------
(* postThread (src/unnamed/part_008) called on its own with a mock client  *)

MaxThread == 3

TweetTexts == {"First tweet", "Second tweet"}

MockIds == {101, 102, 103}

ThreadInputs == UNION { [1..n -> TweetTexts] : n \in 0..MaxThread }

PostInit ==
  /\ fn = "postThread"
  /\ \E tw \in ThreadInputs : args = [tweets |-> tw]
  /\ result = <<>>
  /\ status = "called"
  /\ RunUnused
  /\ FormatUnused

\* tweets.length === 0: return [] before any call of the client
PostThreadEmpty ==
  /\ fn = "postThread" /\ status = "called"
  /\ Len(args.tweets) = 0
  /\ result' = <<>>
  /\ status' = "returned"
  /\ UNCHANGED <<fn, args, fvars, rvars>>

\* client.v2.tweet resolves with data.id = id for the next tweet of the list
TweetResolves(id) ==
  /\ fn = "postThread" /\ status = "called"
  /\ Len(tweetIds) < Len(args.tweets)
  /\ LET k == Len(tweetIds) + 1 IN
     /\ posted' = Append(posted, [k |-> k, text |-> args.tweets[k],
                                  replyTo |-> replyTarget(k, tweetIds), id |-> id])
     /\ tweetIds' = Append(tweetIds, id)
     /\ IF postThreadReturns(k, args.tweets)
        THEN /\ result' = Append(tweetIds, id)
             /\ status' = "returned"
        ELSE UNCHANGED <<result, status>>
  /\ UNCHANGED <<fn, args, fvars, feed, stateFile, pc, dryRun, backfill, lastPosted,
                 queue, thread, run, runLog, reads, writes>>

\* client.v2.tweet rejects: postThread rejects with the same error
TweetRejects ==
  /\ fn = "postThread" /\ status = "called"
  /\ Len(tweetIds) < Len(args.tweets)
  /\ status' = "threw"
  /\ UNCHANGED <<fn, args, result, fvars, rvars>>

PostNext ==
  \/ PostThreadEmpty
  \/ \E id \in MockIds : TweetResolves(id)
  \/ TweetRejects

PostSpec == PostInit /\ [][PostNext]_vars

\* C11: postThread posts the tweets in list order, the first with no reply
\* target and each later one as a reply to the id returned for the tweet
\* just before it; once it has returned, its result holds the returned ids
\* in posting order, one per tweet; for an empty list no posting call is made.
C11_ThreadChained ==
  fn = "postThread" =>
    /\ Len(posted) <= Len(args.tweets)
    /\ \A i \in 1..Len(posted) :
         /\ posted[i].text = args.tweets[i]
         /\ posted[i].replyTo = (IF i = 1 THEN NoReply ELSE posted[i - 1].id)
    /\ status = "returned" =>
         /\ Len(posted) = Len(args.tweets)
         /\ Len(result) = Len(args.tweets)
         /\ \A i \in 1..Len(result) : result[i] = posted[i].id
    /\ Len(args.tweets) = 0 => posted = <<>>

\* a three-tweet thread was posted and returned, the three ids differing
C11_Witness ==
  /\ fn = "postThread" /\ status = "returned"
  /\ Len(args.tweets) = 3
  /\ result = <<101, 102, 103>>
  /\ posted[3].replyTo = 102

----------------------------------------------------------------------------
(* rss.ts (src/unnamed/part_000) called on its own                          *)

NewerFeedReleases == FeedReleases \cup {Release("0.100.0", <<>>)}

NewerFeeds == UNION { [1..n -> NewerFeedReleases] : n \in 0..MaxFeed }

NewerThanVersions == {"0.91.0", "0.92.0", "0.92", "0.99.9", "1.0.0"}

NewerInit ==
  /\ fn = "getReleasesNewerThan"
  /\ \E v \in NewerThanVersions, fd \in NewerFeeds, fetchOk \in BOOLEAN :
       args = [version |-> v, feed |-> fd, fetchOk |-> fetchOk]
  /\ result = <<>>
  /\ status = "called"
  /\ RunUnused
  /\ FormatUnused

GetReleasesNewerThan ==
  /\ fn = "getReleasesNewerThan" /\ status = "called"
  /\ result' = getReleasesNewerThan(args.version, args.feed, args.fetchOk)
  /\ status' = "returned"
  /\ UNCHANGED <<fn, args, fvars, rvars>>

NewerNext == GetReleasesNewerThan

NewerSpec == NewerInit /\ [][NewerNext]_vars

Occurrences(seq, x) == Cardinality({i \in 1..Len(seq) : seq[i] = x})

\* the entries parseRssItems yielded for the call (none when the fetch failed)
FeedEntries == IF args.fetchOk THEN args.feed ELSE <<>>

\* C12: getReleasesNewerThan(v) returns exactly the feed entries whose version
\* compares strictly greater than v under compareVersions (an entry equal to v
\* is left out), each as often as the feed holds it, in ascending order of
\* compareVersions, whatever the order of the feed.
C12_NewerAscending ==
  (fn = "getReleasesNewerThan" /\ status = "returned") =>
    /\ \A r \in NewerFeedReleases :
         Occurrences(result, r) =
           (IF compareVersions(r.version, args.version) > 0
            THEN Occurrences(FeedEntries, r) ELSE 0)
    /\ \A i \in 1..Len(result), j \in 1..Len(result) :
         i < j => compareVersions(result[i].version, result[j].version) <= 0

\* a feed in descending order with an entry equal to v and a newer one
\* numerically above but lexically below it
C12_Witness ==
  /\ fn = "getReleasesNewerThan" /\ status = "returned"
  /\ args.fetchOk
  /\ args.version = "0.92.0"
  /\ Len(args.feed) = 2
  /\ args.feed[1].version = "0.100.0" /\ args.feed[2].version = "0.92.0"
  /\ Len(result) = 1 /\ result[1].version = "0.100.0"

----------------------------------------------------------------------------
(* compareVersions called on its own *)

\* version strings with the integers they denote, component by component
VersionTable ==
  { [s |-> "0.92.0", n |-> <<0, 92, 0>>],
    [s |-> "0.91.9", n |-> <<0, 91, 9>>],
    [s |-> "0.92.1", n |-> <<0, 92, 1>>],
    [s |-> "0.100.0", n |-> <<0, 100, 0>>],
    [s |-> "0.9.10", n |-> <<0, 9, 10>>],
    [s |-> "0.92", n |-> <<0, 92>>],
    [s |-> "1.0", n |-> <<1, 0>>],
    [s |-> "1.0.0", n |-> <<1, 0, 0>>],
    [s |-> "1.0.0.1", n |-> <<1, 0, 0, 1>>],
    [s |-> "2", n |-> <<2>>],
    [s |-> "10.0.0", n |-> <<10, 0, 0>>] }

CompareInit ==
  /\ fn = "compareVersions"
  /\ \E x \in VersionTable, y \in VersionTable : args = [a |-> x.s, b |-> y.s]
  /\ result = <<>>
  /\ status = "called"
  /\ RunUnused
  /\ FormatUnused

CompareVersions ==
  /\ fn = "compareVersions" /\ status = "called"
  /\ result' = compareVersions(args.a, args.b)
  /\ status' = "returned"
  /\ UNCHANGED <<fn, args, fvars, rvars>>

CompareNext == CompareVersions

CompareSpec == CompareInit /\ [][CompareNext]_vars

Sign(x) == IF x < 0 THEN -1 ELSE IF x > 0 THEN 1 ELSE 0

ComponentsOf(s) == (CHOOSE x \in VersionTable : x.s = s).n

Component(n, i) == IF i <= Len(n) THEN n[i] ELSE 0

\* -1, 0, 1 as a is below, equal to, above b: decided by the first component
\* at which they differ, missing trailing components counting as zero
ExpectedOrder(a, b) ==
  LET na == ComponentsOf(a)
      nb == ComponentsOf(b)
      diff == {i \in 1..Max(Len(na), Len(nb)) : Component(na, i) # Component(nb, i)}
  IN IF diff = {} THEN 0
     ELSE LET i == CHOOSE k \in diff : \A m \in diff : k <= m
          IN IF Component(na, i) < Component(nb, i) THEN -1 ELSE 1

\* C13: compareVersions(a, b) is negative, zero or positive as a is below,
\* equal to or above b, comparing the dotted components as integers with
\* missing trailing components as zero; compareVersions("0.92.0", "0.91.9") > 0,
\* compareVersions("1.0", "1.0.0") = 0, and swapping the arguments flips the sign.
C13_CompareVersions ==
  (fn = "compareVersions" /\ status = "returned") =>
    /\ Sign(result) = ExpectedOrder(args.a, args.b)
    /\ (args.a = "0.92.0" /\ args.b = "0.91.9") => result > 0
    /\ (args.a = "1.0" /\ args.b = "1.0.0") => result = 0
    /\ Sign(result) = -Sign(compareVersions(args.b, args.a))

\* versions of different length that differ only past the shorter one
C13_Witness ==
  /\ fn = "compareVersions" /\ status = "returned"
  /\ args.a = "1.0" /\ args.b = "1.0.0.1"
  /\ result < 0

----------------------------------------------------------------------------
(* github.ts (src/src/index.ts, lines 205-258): getLatestStableRelease     *)

MaxReleases == 3

UpperCase == "ABCDEFGHIJKLMNOPQRSTUVWXYZ"
LowerCase == "abcdefghijklmnopqrstuvwxyz"

UpperChars == {CharAt(UpperCase, i) : i \in 1..Len(UpperCase)}

LowerOf ==
  [c \in UpperChars |->
     CharAt(LowerCase, CHOOSE i \in 1..Len(UpperCase) : CharAt(UpperCase, i) = c)]

\* the pieces between the upper-case letters stay as they are
RECURSIVE toLowerCase(_)
toLowerCase(s) ==
  LET ups == {i \in 1..Len(s) : CharAt(s, i) \in UpperChars}
  IN IF ups = {} THEN s
     ELSE LET i == CHOOSE k \in ups : \A m \in ups : k <= m
          IN SubSeq(s, 1, i - 1) \o LowerOf[CharAt(s, i)]
               \o toLowerCase(SubSeq(s, i + 1, Len(s)))

\* String.prototype.replace with a string pattern: the first occurrence only
ReplaceFirst(s, pat, rep) ==
  LET at == {i \in 1..(Len(s) - Len(pat) + 1) : SubSeq(s, i, i + Len(pat) - 1) = pat}
  IN IF at = {} THEN s
     ELSE LET i == CHOOSE k \in at : \A m \in at : k <= m
          IN SubSeq(s, 1, i - 1) \o rep \o SubSeq(s, i + Len(pat), Len(s))

PRE_RELEASE_PATTERNS == {"alpha", "beta", "rc"}

\* faulty variant: the tag is searched as it is written
isPreReleaseCaseSensitive(tagName) ==
  \E pattern \in PRE_RELEASE_PATTERNS : Contains(tagName, pattern)

isPreRelease(tagName) ==
  LET lowerTag == toLowerCase(tagName)
  IN \E pattern \in PRE_RELEASE_PATTERNS : Contains(lowerTag, pattern)

extractVersion(tagName) == ReplaceFirst(tagName, "rust-v", "")

\* the index of the first release the loop returns for, 0 when it runs out
RECURSIVE firstStableFrom(_, _)
firstStableFrom(releases, i) ==
  IF i > Len(releases) THEN 0
  ELSE IF releases[i].tag_name = "" \/ isPreRelease(releases[i].tag_name)
       THEN firstStableFrom(releases, i + 1)
       ELSE i

\* listOk = FALSE: octokit.repos.listReleases threw.
\* The result Release | null is a sequence of at most one release.
getLatestStableRelease(releases, listOk) ==
  IF ~listOk THEN <<>>
  ELSE LET i == firstStableFrom(releases, 1) IN
       IF i = 0 THEN <<>>
       ELSE <<[version |-> extractVersion(releases[i].tag_name),
               tagName |-> releases[i].tag_name,
               url |-> releases[i].html_url]>>

\* release tags with what they are: stable or pre-release
TagTable ==
  { [tag |-> "rust-v0.92.0", stable |-> TRUE],
    [tag |-> "rust-v0.91.0", stable |-> TRUE],
    [tag |-> "rust-v0.93.0-alpha.1", stable |-> FALSE],
    [tag |-> "rust-v0.94.0-Beta", stable |-> FALSE],
    [tag |-> "rust-v0.93.0-RC1", stable |-> FALSE] }

GithubRelease(t) ==
  [tag_name |-> t.tag,
   html_url |-> "https://github.com/openai/codex/releases/tag/" \o t.tag]

GithubLists == UNION { [1..n -> {GithubRelease(t) : t \in TagTable}] : n \in 0..MaxReleases }

GithubInit ==
  /\ fn = "getLatestStableRelease"
  /\ \E rs \in GithubLists, listOk \in BOOLEAN : args = [releases |-> rs, listOk |-> listOk]
  /\ result = <<>>
  /\ status = "called"
  /\ RunUnused
  /\ FormatUnused

GetLatestStableRelease ==
  /\ fn = "getLatestStableRelease" /\ status = "called"
  /\ result' = getLatestStableRelease(args.releases, args.listOk)
  /\ status' = "returned"
  /\ UNCHANGED <<fn, args, fvars, rvars>>

GithubNext == GetLatestStableRelease

GithubSpec == GithubInit /\ [][GithubNext]_vars

IsStableTag(tag) == \E t \in TagTable : t.tag = tag /\ t.stable

StableIndexes == {i \in 1..Len(args.releases) : IsStableTag(args.releases[i].tag_name)}

\* C14: getLatestStableRelease returns the first entry, in the order of the
\* list, whose tag holds none of alpha, beta, rc in any letter case; it
\* returns null for an empty list, for a list of pre-releases only, and when
\* the listing fails.
C14_FirstStable ==
  (fn = "getLatestStableRelease" /\ status = "returned") =>
    IF ~args.listOk \/ StableIndexes = {}
    THEN result = <<>>
    ELSE /\ Len(result) = 1
         /\ LET i == CHOOSE k \in StableIndexes : \A m \in StableIndexes : k <= m
            IN /\ result[1].tagName = args.releases[i].tag_name
               /\ result[1].url = args.releases[i].html_url

\* two pre-releases written in upper or mixed case, then a stable release
C14_Witness ==
  /\ fn = "getLatestStableRelease" /\ status = "returned"
  /\ args.listOk
  /\ Len(args.releases) = 3
  /\ args.releases[1].tag_name = "rust-v0.93.0-RC1"
  /\ args.releases[2].tag_name = "rust-v0.94.0-Beta"
  /\ args.releases[3].tag_name = "rust-v0.91.0"
  /\ Len(result) = 1 /\ result[1].version = "0.91.0"

----------------------------------------------------------------------------
(* Parser: src/unnamed/part_001 (category lists) and src/src/parser.ts      *)
(* (category counts).  The regular expressions are modelled by what they   *)
(* match on the string, position by position.                              *)

IsDigit(c) == c \in {"0", "1", "2", "3", "4", "5", "6", "7", "8", "9"}

SetMin(S) == CHOOSE i \in S : \A j \in S : i <= j

\* the positions at which t occurs in s
Positions(s, t) ==
  {i \in 1..(Len(s) - Len(t) + 1) :
     /\ CharAt(s, i) = CharAt(t, 1)
     /\ SubSeq(s, i, i + Len(t) - 1) = t}

\* the least element of S that is at least from, 0 when there is none
FirstAtOrAfter(S, from) ==
  LET T == {i \in S : i >= from} IN IF T = {} THEN 0 ELSE SetMin(T)

\* \d*: the last index of the run of digits that starts at i (i - 1: no digit)
RECURSIVE digitsEnd(_, _)
digitsEnd(s, i) ==
  IF i <= Len(s) /\ IsDigit(CharAt(s, i)) THEN digitsEnd(s, i + 1) ELSE i - 1

\* \s*: the last index of the run of white space that starts at i
RECURSIVE spaceEnd(_, _)
spaceEnd(s, i) ==
  IF i <= Len(s) /\ IsSpace(CharAt(s, i)) THEN spaceEnd(s, i + 1) ELSE i - 1

\* \s* to the left: the first index of the run of white space that ends at i
RECURSIVE spaceStart(_, _)
spaceStart(s, i) ==
  IF i >= 1 /\ IsSpace(CharAt(s, i)) THEN spaceStart(s, i - 1) ELSE i + 1

\* [^\S\n]*: the last index of the run of white space other than \n from i
RECURSIVE blankEnd(_, _)
blankEnd(s, i) ==
  IF i <= Len(s) /\ IsSpace(CharAt(s, i)) /\ CharAt(s, i) # "\n"
  THEN blankEnd(s, i + 1) ELSE i - 1

\* .replace(/<[^>]+>/g, '')
RECURSIVE stripTags(_)
stripTags(s) ==
  LET gts == Positions(s, ">")
      starts == {p \in Positions(s, "<") :
                   /\ p < Len(s)
                   /\ CharAt(s, p + 1) # ">"
                   /\ FirstAtOrAfter(gts, p + 2) # 0}
  IN IF starts = {} THEN s
     ELSE LET p == SetMin(starts)
              q == FirstAtOrAfter(gts, p + 2)
          IN SubSeq(s, 1, p - 1) \o stripTags(SubSeq(s, q + 1, Len(s)))

\* (?:,\s*#\d+)*\) after the digits that end at d: the index of the closing
\* parenthesis, 0 when the text does not go on as a reference marker;
\* multi = FALSE is the pattern without the comma group
RECURSIVE refTail(_, _, _)
refTail(s, d, multi) ==
  IF d + 1 > Len(s) THEN 0
  ELSE IF CharAt(s, d + 1) = ")" THEN d + 1
  ELSE IF multi /\ CharAt(s, d + 1) = ","
  THEN LET h == spaceEnd(s, d + 2) + 1
           e == digitsEnd(s, h + 1)
       IN IF h <= Len(s) /\ CharAt(s, h) = "#" /\ e >= h + 1
          THEN refTail(s, e, multi) ELSE 0
  ELSE 0

\* \(#\d+(?:,\s*#\d+)*\) at m: the index of its closing parenthesis, or 0
refEnd(s, m, multi) ==
  IF m + 1 <= Len(s) /\ SubSeq(s, m, m + 1) = "(#"
  THEN LET d == digitsEnd(s, m + 2) IN IF d >= m + 2 THEN refTail(s, d, multi) ELSE 0
  ELSE 0

\* .replace(/\s*\(#\d+(?:,\s*#\d+)*\)\s*/g, '') and, with multi = FALSE,
\* .replace(/\s*\(#\d+\)\s*/g, '')
RECURSIVE removeRefs(_, _)
removeRefs(s, multi) ==
  LET opens == {m \in Positions(s, "(") : refEnd(s, m, multi) # 0}
  IN IF opens = {} THEN s
     ELSE LET m == SetMin(opens)
              w == spaceStart(s, m - 1)
              e == spaceEnd(s, refEnd(s, m, multi) + 1)
          IN SubSeq(s, 1, w - 1) \o removeRefs(SubSeq(s, e + 1, Len(s)), multi)

\* .replace(/\s+/g, ' ')
RECURSIVE collapseSpaces(_)
collapseSpaces(s) ==
  LET spaces == {i \in 1..Len(s) : IsSpace(CharAt(s, i))}
  IN IF spaces = {} THEN s
     ELSE LET i == SetMin(spaces)
              e == spaceEnd(s, i)
          IN SubSeq(s, 1, i - 1) \o " " \o collapseSpaces(SubSeq(s, e + 1, Len(s)))

\* faulty variant: the reference markers stay
cleanFeatureKeepRefs(text) == Trim(collapseSpaces(stripTags(text)))

cleanFeature(text) ==
  Trim(collapseSpaces(removeRefs(removeRefs(stripTags(text), TRUE), FALSE)))

NonEmpty(s) == s # ""

\* body.match(/<h2[^>]*>NAME<\/h2>([\s\S]*?)(?=<h2|$)/i): no match is <<>>,
\* a match is <<[raw |-> match[0], content |-> match[1]]>>
\* the match on the lower-cased body low, close being the lower-cased NAME</h2>
matchHtmlSectionIn(body, low, close) ==
  LET h2s == Positions(low, "<h2")
      gts == Positions(low, ">")
      gt(p) == FirstAtOrAfter(gts, p + 3)
      starts == {p \in h2s :
                   /\ gt(p) # 0
                   /\ gt(p) + Len(close) <= Len(low)
                   /\ SubSeq(low, gt(p) + 1, gt(p) + Len(close)) = close}
  IN IF starts = {} THEN <<>>
     ELSE LET p == SetMin(starts)
              from == gt(p) + Len(close) + 1
              next == FirstAtOrAfter(h2s, from)
              to == IF next = 0 THEN Len(body) ELSE next - 1
          IN <<[raw |-> SubSeq(body, p, to), content |-> SubSeq(body, from, to)]>>

matchHtmlSection(body, sectionName) ==
  matchHtmlSectionIn(body, toLowerCase(body), toLowerCase(sectionName) \o "</h2>")

\* liRegex = /<li[^>]*>([\s\S]*?)<\/li>/gi and its exec loop: every match[1]
RECURSIVE liContentsIn(_, _)
liContentsIn(content, low) ==
  LET gts == Positions(low, ">")
      ends == Positions(low, "</li>")
      gt(p) == FirstAtOrAfter(gts, p + 3)
      end(p) == FirstAtOrAfter(ends, gt(p) + 1)
      starts == {p \in Positions(low, "<li") : gt(p) # 0 /\ end(p) # 0}
  IN IF starts = {} THEN <<>>
     ELSE LET p == SetMin(starts)
          IN <<SubSeq(content, gt(p) + 1, end(p) - 1)>>
             \o liContentsIn(SubSeq(content, end(p) + 5, Len(content)),
                             SubSeq(low, end(p) + 5, Len(low)))

liContents(content) == liContentsIn(content, toLowerCase(content))

\* match[1].match(/<li[^>]*>/gi)?.length ?? 0
RECURSIVE countLiTagsIn(_)
countLiTagsIn(low) ==
  LET gts == Positions(low, ">")
      gt(p) == FirstAtOrAfter(gts, p + 3)
      starts == {p \in Positions(low, "<li") : gt(p) # 0}
  IN IF starts = {} THEN 0
     ELSE 1 + countLiTagsIn(SubSeq(low, gt(SetMin(starts)) + 1, Len(low)))

countLiTags(content) == countLiTagsIn(toLowerCase(content))

\* the push loop over the <li> matches: clean, keep what is not empty
htmlItemsOf(content) == Filter(NonEmpty, Map(cleanFeature, liContents(content)))

\* part_001
htmlItemsOfMatch(match) ==
  IF match = <<>> THEN <<>> ELSE htmlItemsOf(match[1].content)

\* part_001
extractHtmlSectionItems(body, sectionName) ==
  htmlItemsOfMatch(matchHtmlSection(body, sectionName))

\* parser.ts
countLiTagsOfMatch(match) ==
  IF match = <<>> THEN 0 ELSE countLiTags(match[1].content)

\* parser.ts
countHtmlSectionItems(body, sectionName) ==
  countLiTagsOfMatch(matchHtmlSection(body, sectionName))

\* body.match(/## NAME[^\S\n]*\n([\s\S]*?)(?=\n## |$)/) with the flag i when
\* ignoreCase: no match is <<>>, a match is <<[raw, content]>>
matchMarkdownSectionIn(body, text, head) ==
  LET nl(p) == blankEnd(body, p + Len(head)) + 1
      starts == {p \in Positions(text, head) : nl(p) <= Len(body) /\ CharAt(body, nl(p)) = "\n"}
  IN IF starts = {} THEN <<>>
     ELSE LET p == SetMin(starts)
              from == nl(p) + 1
              next == FirstAtOrAfter(Positions(body, "\n## "), from)
              to == IF next = 0 THEN Len(body) ELSE next - 1
          IN <<[raw |-> SubSeq(body, p, to), content |-> SubSeq(body, from, to)]>>

matchMarkdownSection(body, sectionName, ignoreCase) ==
  IF ignoreCase
  THEN matchMarkdownSectionIn(body, toLowerCase(body), toLowerCase("## " \o sectionName))
  ELSE matchMarkdownSectionIn(body, body, "## " \o sectionName)

IsMarkdownBullet(trimmed) == StartsWith(trimmed, "- ") \/ StartsWith(trimmed, "* ")

\* the lines of the section that are bullets, trimmed
markdownBullets(content) == Filter(IsMarkdownBullet, Map(Trim, Split(content, "\n")))

AfterBullet(trimmed) == SubSeq(trimmed, 3, Len(trimmed))

\* the push loop over the lines: clean trimmed.slice(2), keep what is not empty
markdownItemsOf(content) ==
  Filter(NonEmpty, Map(cleanFeature, Map(AfterBullet, markdownBullets(content))))

\* part_001
markdownItemsOfMatch(match) ==
  IF match = <<>> THEN <<>> ELSE markdownItemsOf(match[1].content)

\* part_001
extractMarkdownSectionItems(body, sectionName) ==
  markdownItemsOfMatch(matchMarkdownSection(body, sectionName, TRUE))

\* parser.ts
countBulletsOfMatch(match) ==
  IF match = <<>> THEN 0 ELSE Len(markdownBullets(match[1].content))

\* parser.ts
countMarkdownSectionItems(body, sectionName) ==
  countBulletsOfMatch(matchMarkdownSection(body, sectionName, TRUE))

\* part_001: ParsedRelease | null as a sequence of at most one result
parseMarkdownOf(body, sectionMatch) ==
  IF sectionMatch = <<>> THEN <<>>
  ELSE <<[features |-> markdownItemsOf(sectionMatch[1].content),
          bugFixes |-> extractMarkdownSectionItems(body, "Bug Fixes"),
          docs |-> extractMarkdownSectionItems(body, "Documentation"),
          chores |-> extractMarkdownSectionItems(body, "Chores"),
          raw |-> sectionMatch[1].raw]>>

parseMarkdown(body) ==
  parseMarkdownOf(body, matchMarkdownSection(body, "New Features", FALSE))

\* part_001
parseHtmlOf(body, sectionMatch) ==
  IF sectionMatch = <<>> THEN <<>>
  ELSE <<[features |-> htmlItemsOf(sectionMatch[1].content),
          bugFixes |-> extractHtmlSectionItems(body, "Bug Fixes"),
          docs |-> extractHtmlSectionItems(body, "Documentation"),
          chores |-> extractHtmlSectionItems(body, "Chores"),
          raw |-> sectionMatch[1].raw]>>

parseHtml(body) == parseHtmlOf(body, matchHtmlSection(body, "New Features"))

EmptyParsedRelease == [features |-> <<>>, bugFixes |-> <<>>, docs |-> <<>>, chores |-> <<>>, raw |-> ""]

\* faulty variant: an HTML result without features is returned as well
firstResultHtmlAlways(htmlResult, mdResult, empty) ==
  IF htmlResult # <<>> THEN htmlResult[1]
  ELSE IF mdResult # <<>> THEN mdResult[1]
  ELSE empty

\* the choice of parseNewFeatures between its two results (both versions)
firstResult(htmlResult, mdResult, empty) ==
  IF htmlResult # <<>> /\ Len(htmlResult[1].features) > 0 THEN htmlResult[1]
  ELSE IF mdResult # <<>> THEN mdResult[1]
  ELSE empty

\* part_001
parseNewFeatures(releaseBody) ==
  firstResult(parseHtml(releaseBody), parseMarkdown(releaseBody), EmptyParsedRelease)

\* parser.ts
parseMarkdownCountsOf(body, sectionMatch) ==
  IF sectionMatch = <<>> THEN <<>>
  ELSE <<[features |-> markdownItemsOf(sectionMatch[1].content),
          bugFixes |-> countMarkdownSectionItems(body, "Bug Fixes"),
          docs |-> countMarkdownSectionItems(body, "Documentation"),
          chores |-> countMarkdownSectionItems(body, "Chores"),
          raw |-> sectionMatch[1].raw]>>

parseMarkdownCounts(body) ==
  parseMarkdownCountsOf(body, matchMarkdownSection(body, "New Features", FALSE))

\* parser.ts
parseHtmlCountsOf(body, sectionMatch) ==
  IF sectionMatch = <<>> THEN <<>>
  ELSE <<[features |-> htmlItemsOf(sectionMatch[1].content),
          bugFixes |-> countHtmlSectionItems(body, "Bug Fixes"),
          docs |-> countHtmlSectionItems(body, "Documentation"),
          chores |-> countHtmlSectionItems(body, "Chores"),
          raw |-> sectionMatch[1].raw]>>

parseHtmlCounts(body) ==
  parseHtmlCountsOf(body, matchHtmlSection(body, "New Features"))

EmptyParsedCounts == [features |-> <<>>, bugFixes |-> 0, docs |-> 0, chores |-> 0, raw |-> ""]

\* parser.ts
parseNewFeaturesCounts(releaseBody) ==
  firstResult(parseHtmlCounts(releaseBody), parseMarkdownCounts(releaseBody),
              EmptyParsedCounts)

----------------------------------------------------------------------------
(* parseNewFeatures called on release bodies written from documents        *)

MaxSections == 2

Headings == {"New Features", "new features", "Bug Fixes", "Documentation", "Chores"}

\* list items as they are written, with what they read once cleaned;
\* k, the position of the section, makes the items of different sections differ
AddedItem(k) ==
  [raw |-> "Added item " \o ToString(k) \o " (#1234)",
   clean |-> "Added item " \o ToString(k)]

FastItem(k) ==
  [raw |-> "Item  " \o ToString(k) \o " is <code>fast</code> (#9817, #9818)",
   clean |-> "Item " \o ToString(k) \o " is fast"]

BlankItem == [raw |-> "<b></b> (#44)", clean |-> ""]

SectionItemLists(k) ==
  { <<>>, <<AddedItem(k)>>, <<FastItem(k), BlankItem, AddedItem(k)>>, <<BlankItem>> }

SectionsAt(k) == {[heading |-> h, items |-> l] : h \in Headings, l \in SectionItemLists(k)}

\* documents of n sections with n different headings
RECURSIVE DocumentsOfLen(_)
DocumentsOfLen(n) ==
  IF n = 0 THEN {<<>>}
  ELSE UNION { {Append(d, s) : s \in {x \in SectionsAt(n) :
                                         \A i \in 1..(n - 1) : d[i].heading # x.heading}}
               : d \in DocumentsOfLen(n - 1) }

Documents == UNION {DocumentsOfLen(n) : n \in 0..MaxSections}

Layouts == {"markdown", "markdownCompact", "html", "htmlHeadingThenMarkdown"}

RawOf(item) == item.raw

CleanOf(item) == item.clean

MarkdownBlock(section) ==
  "## " \o section.heading
    \o Join([j \in 1..Len(section.items) |->
               (IF j % 2 = 1 THEN "\n- " ELSE "\n* ") \o section.items[j].raw], "")

HtmlBlock(section) ==
  "<h2>" \o section.heading \o "</h2>"
    \o (IF Len(section.items) = 0 THEN ""
        ELSE "\n<ul>"
             \o Join([j \in 1..Len(section.items) |->
                        "\n<li>" \o section.items[j].raw \o "</li>"], "")
             \o "\n</ul>")

\* the release body of a document: markdown with or without a blank line
\* between its sections, HTML, or markdown under an empty HTML heading
BodyOf(layout, doc) ==
  CASE layout = "markdown" -> Join(Map(MarkdownBlock, doc), "\n\n")
    [] layout = "markdownCompact" -> Join(Map(MarkdownBlock, doc), "\n")
    [] layout = "html" -> Join(Map(HtmlBlock, doc), "\n")
    [] layout = "htmlHeadingThenMarkdown" ->
         "<h2>New Features</h2>\n" \o Join(Map(MarkdownBlock, doc), "\n\n")

ParseInit ==
  /\ fn = "parseNewFeatures"
  /\ \E layout \in Layouts, doc \in Documents :
       args = [layout |-> layout, doc |-> doc, body |-> BodyOf(layout, doc)]
  /\ result = <<>>
  /\ status = "called"
  /\ RunUnused
  /\ FormatUnused

\* parseNewFeatures of src/unnamed/part_001
ParseNewFeatures ==
  /\ fn = "parseNewFeatures" /\ status = "called"
  /\ result' = [parser |-> "lists", parsed |-> parseNewFeatures(args.body)]
  /\ status' = "returned"
  /\ UNCHANGED <<fn, args, fvars, rvars>>

\* parseNewFeatures of src/src/parser.ts
ParseNewFeaturesCounts ==
  /\ fn = "parseNewFeatures" /\ status = "called"
  /\ result' = [parser |-> "counts", parsed |-> parseNewFeaturesCounts(args.body)]
  /\ status' = "returned"
  /\ UNCHANGED <<fn, args, fvars, rvars>>

ParseNext == ParseNewFeatures \/ ParseNewFeaturesCounts

ParseSpec == ParseInit /\ [][ParseNext]_vars

Parsed == fn = "parseNewFeatures" /\ status = "returned"

\* what the document says, read without the parser

SectionsHeaded(doc, h) == {i \in 1..Len(doc) : doc[i].heading = h}

SectionsHeadedAnyCase(doc, h) ==
  {i \in 1..Len(doc) : toLowerCase(doc[i].heading) = toLowerCase(h)}

\* the cleaned items of a section, in order, the blank ones left out
ExpectedItems(section) == Filter(NonEmpty, Map(CleanOf, section.items))

\* the cleaned items of every section headed h in some letter case
CleanItemsUnder(doc, h) ==
  UNION { {doc[i].items[j].clean : j \in 1..Len(doc[i].items)}
          : i \in SectionsHeadedAnyCase(doc, h) }

PlainLayouts == {"markdown", "markdownCompact", "html"}

C16_NoPrimarySectionEmptyResult ==
  (/\ Parsed
   /\ args.layout \in PlainLayouts
   /\ SectionsHeaded(args.doc, "New Features") = {}) =>
    /\ result.parsed.features = <<>>
    /\ result.parsed.raw = ""
    /\ result.parser = "lists" =>
         /\ result.parsed.bugFixes = <<>>
         /\ result.parsed.docs = <<>>
         /\ result.parsed.chores = <<>>
    /\ result.parser = "counts" =>
         /\ result.parsed.bugFixes = 0
         /\ result.parsed.docs = 0
         /\ result.parsed.chores = 0

\* C17: every item extracted for a section comes from the text between that
\* section's heading and the next same-level heading (or the end): each
\* emitted feature is an item written under New Features and, in the parser
\* with category lists, each emitted bug fix, doc and chore is an item
\* written under Bug Fixes, Documentation and Chores; in both dialects.
C17_ItemsWithinSection ==
  Parsed =>
    /\ \A k \in 1..Len(result.parsed.features) :
         result.parsed.features[k] \in CleanItemsUnder(args.doc, "New Features")
    /\ result.parser = "lists" =>
         /\ \A k \in 1..Len(result.parsed.bugFixes) :
              result.parsed.bugFixes[k] \in CleanItemsUnder(args.doc, "Bug Fixes")
         /\ \A k \in 1..Len(result.parsed.docs) :
              result.parsed.docs[k] \in CleanItemsUnder(args.doc, "Documentation")
         /\ \A k \in 1..Len(result.parsed.chores) :
              result.parsed.chores[k] \in CleanItemsUnder(args.doc, "Chores")

\* C18: New Features is matched case-sensitively in both dialects: a body
\* whose only such heading is written "new features", as a markdown ##
\* heading or as an HTML <h2>, yields no features.
C18_PrimaryHeadingCaseSensitive ==
  (/\ Parsed
   /\ args.layout \in PlainLayouts
   /\ SectionsHeaded(args.doc, "new features") # {}
   /\ SectionsHeaded(args.doc, "New Features") = {}) =>
    result.parsed.features = <<>>

\* the section the parser delimited: its heading opens the raw capture
OpensWithHeading(raw, heading) ==
  \/ StartsWith(raw, "## " \o heading \o "\n")
  \/ StartsWith(raw, "<h2>" \o heading \o "</h2>")

C20_ReadOnceWrittenOnceAtEnd ==
  run > 0 =>
    /\ reads = 1
    /\ writes <= 1
    /\ writes = 1 => pc = "done"

----------------------------------------------------------------------------
(* The version label of the title card *)

\* the number of dots of s
DotCount(s) == Cardinality({i \in 1..Len(s) : CharAt(s, i) = "."})

\* three dot-separated components of which the third is "0"
HasZeroPatch(v) == DotCount(v) = 2 /\ EndsWith(v, ".0")

----------------------------------------------------------------------------
(* Posting across runs *)

\* C22: across any sequence of runs, runs aborted by a posting failure
\* part-way through a thread and then retried included, no segment of a
\* release is posted more than once.
C22_NoSegmentPostedTwice ==
  \A i, j \in 1..Len(posted) :
    (posted[i].version = posted[j].version /\ posted[i].k = posted[j].k) => i = j

----------------------------------------------------------------------------
(* The packing functions of part_003 called on their own *)

MaxPack == 3

\* lengths around the target: 9 + (3 + 385) + (3 + 400) = 800 and
\* 17 + (3 + 377) + (3 + 400) = 800 fit exactly, 401 is one too many, and 900
\* alone exceeds the target
PackLens == {0, 377, 385, 400, 401, 900}

PackFeatureLists ==
  UNION { { [i \in 1..n |-> Rep(FeatChar[i], l[i])] : l \in [1..n -> PackLens] }
          : n \in 0..MaxPack }

PackItemLists ==
  UNION { { [i \in 1..n |-> Rep(ItemChar[i], l[i])] : l \in [1..n -> PackLens] }
          : n \in 0..MaxPack }

\* "Bug Fixes:" with one item of 377 and "Docs:" with one item of 400 combine
\* to 13 + 377 + 2 + 8 + 400 = 800 exactly
PackCategories ==
  { otherCategories([bugFixes |-> b, docs |-> d, chores |-> c])
    : b \in PackItemLists,
      d \in {<<>>, <<"Doc 1">>, <<Rep("y", 400)>>, <<Rep("y", 401)>>},
      c \in {<<>>, <<"Chore 1">>, <<Rep("z", 790)>>} }

MaxSplit == 5

\* "Bug Fixes (cont.):" with two items of 385 has 18 + 388 + 388 = 794 characters
SplitLens == {10, 385, 900}

SplitItemLists ==
  UNION { { [i \in 1..n |-> Rep(ItemChar[i], l[i])] : l \in [1..n -> SplitLens] }
          : n \in 0..MaxSplit }

PackInputs ==
  { [fn |-> "buildFeatureTweets", args |-> [features |-> fs]] : fs \in PackFeatureLists }
    \cup { [fn |-> "combineCategories", args |-> [categories |-> cs]] : cs \in PackCategories }
    \cup { [fn |-> "splitCategoryIntoTweets", args |-> [title |-> "Bug Fixes", items |-> its]]
            : its \in SplitItemLists }

PackInit ==
  /\ \E in \in PackInputs : fn = in.fn /\ args = in.args
  /\ result = <<>>
  /\ status = "called"
  /\ RunUnused
  /\ FormatUnused

BuildFeatureTweets ==
  /\ fn = "buildFeatureTweets" /\ status = "called"
  /\ result' = buildFeatureTweets(args.features)
  /\ status' = "returned"
  /\ UNCHANGED <<fn, args, fvars, rvars>>

CombineCategories ==
  /\ fn = "combineCategories" /\ status = "called"
  /\ result' = combineCategories(args.categories)
  /\ status' = "returned"
  /\ UNCHANGED <<fn, args, fvars, rvars>>

SplitCategoryIntoTweets ==
  /\ fn = "splitCategoryIntoTweets" /\ status = "called"
  /\ result' = splitCategoryIntoTweets(args.title, args.items)
  /\ status' = "returned"
  /\ UNCHANGED <<fn, args, fvars, rvars>>

PackNext ==
  \/ BuildFeatureTweets
  \/ CombineCategories
  \/ SplitCategoryIntoTweets

PackSpec == PackInit /\ [][PackNext]_vars

\* reading a segment back: its label line and the texts of its bullet lines
LabelOf(seg) == Split(seg, "\n")[1]

BulletsOf(seg) == Tail(Split(seg, "\n"))

AfterBulletMark(l) == SubSeq(l, 3, Len(l))

RECURSIVE Flatten(_)
Flatten(seqs) == IF Len(seqs) = 0 THEN <<>> ELSE seqs[1] \o Flatten(Tail(seqs))

AllBulletLines(seg) == \A j \in 1..Len(BulletsOf(seg)) : IsBulletLine(BulletsOf(seg)[j])

\* C23: buildFeatureTweets places the features in input order, each in exactly
\* one segment; the first segment is labelled "Features:" and every later
\* one "Features (cont.):"; a feature opens a new segment only when
\* appending it to the segment before would exceed TARGET_TWEET_LENGTH; a
\* segment longer than TARGET_TWEET_LENGTH holds a single feature.
C23_FeatureSegments ==
  (fn = "buildFeatureTweets" /\ status = "returned") =>
    /\ \A k \in 1..Len(result) : AllBulletLines(result[k])
    /\ Flatten([k \in 1..Len(result) |-> Map(AfterBulletMark, BulletsOf(result[k]))])
         = args.features
    /\ \A k \in 1..Len(result) :
         /\ LabelOf(result[k]) = IF k = 1 THEN "Features:" ELSE "Features (cont.):"
         /\ Len(BulletsOf(result[k])) >= 1
         /\ k > 1 => Len(result[k - 1] \o "\n" \o BulletsOf(result[k])[1])
                       > TARGET_TWEET_LENGTH
         /\ Len(result[k]) > TARGET_TWEET_LENGTH => Len(BulletsOf(result[k])) = 1

\* three features over two segments, the first filled to the target exactly
C23_Witness ==
  /\ fn = "buildFeatureTweets" /\ status = "returned"
  /\ Len(args.features) = 3
  /\ Len(result) = 2
  /\ Len(result[1]) = TARGET_TWEET_LENGTH
  /\ LabelOf(result[2]) = "Features (cont.):"

\* where the first heading "title:" of a category stands in a segment, 0: nowhere
HeadPos(seg, title) ==
  LET at == Positions(seg, title \o ":") IN IF at = {} THEN 0 ELSE SetMin(at)

\* the segments in which a category opens
HomesOf(title) == {k \in 1..Len(result) : HeadPos(result[k], title) # 0}

\* the categories of which a segment holds a part
CategoriesIn(seg) ==
  {c \in 1..Len(args.categories) : Contains(seg, args.categories[c].title)}

\* C24: combineCategories renders the non-empty categories in the order
\* given (Bug Fixes, Docs, Chores) and nothing for an empty category; a
\* category's block stands in the segment of the content before it exactly
\* when that content, a blank line and the block make at most
\* TARGET_TWEET_LENGTH characters; no segment holding two or more categories
\* is longer than TARGET_TWEET_LENGTH.
C24_CategoriesCombined ==
  (fn = "combineCategories" /\ status = "returned") =>
    /\ \A c \in 1..Len(args.categories) :
         LET title == args.categories[c].title
             its == args.categories[c].items
             block == buildCategorySection(title, its, TRUE)
         IN IF Len(its) = 0
            THEN \A k \in 1..Len(result) : ~Contains(result[k], title)
            ELSE /\ Cardinality(HomesOf(title)) = 1
                 /\ LET k == CHOOSE h \in HomesOf(title) : TRUE
                        pos == HeadPos(result[k], title)
                    IN /\ (pos = 1 /\ k > 1) =>
                            Len(result[k - 1] \o "\n\n" \o block) > TARGET_TWEET_LENGTH
                       /\ pos > 1 =>
                            /\ pos > 3
                            /\ SubSeq(result[k], pos - 2, pos - 1) = "\n\n"
                            /\ Len(SubSeq(result[k], 1, pos - 3) \o "\n\n" \o block)
                                 <= TARGET_TWEET_LENGTH
                            /\ SubSeq(result[k], pos, pos + Len(block) - 1) = block
                       /\ \A d \in (c + 1)..Len(args.categories) :
                            Len(args.categories[d].items) > 0 =>
                              \A h \in HomesOf(args.categories[d].title) :
                                \/ h > k
                                \/ h = k /\ HeadPos(result[h], args.categories[d].title) > pos
    /\ \A k \in 1..Len(result) :
         Cardinality(CategoriesIn(result[k])) >= 2 =>
           Len(result[k]) <= TARGET_TWEET_LENGTH

\* bug fixes and docs share a segment of exactly the target length and the
\* chores, which no longer fit, stand in the next one
C24_Witness ==
  /\ fn = "combineCategories" /\ status = "returned"
  /\ Len(result) = 2
  /\ Len(result[1]) = TARGET_TWEET_LENGTH
  /\ CategoriesIn(result[1]) = {1, 2}
  /\ CategoriesIn(result[2]) = {3}

\* the item bullets of a segment, without its "K more..." line
ItemBulletsOf(seg) == Filter(IsItemLine, BulletsOf(seg))

\* the preview rendering of the category under call exceeds the target
SplitCase ==
  /\ fn = "splitCategoryIntoTweets" /\ status = "returned"
  /\ Len(buildCategorySection(args.title, args.items, TRUE)) > TARGET_TWEET_LENGTH

\* the items shown over the segments, in segment order
SplitShown ==
  Flatten([k \in 1..Len(result) |-> Map(AfterBulletMark, ItemBulletsOf(result[k]))])

SplitLabels ==
  SplitCase =>
    \A k \in 1..Len(result) :
      /\ AllBulletLines(result[k])
      /\ LabelOf(result[k]) =
           IF k = 1 THEN args.title \o ":" ELSE args.title \o " (cont.):"

SplitItemsInOrder ==
  SplitCase =>
    /\ Len(SplitShown) <= Len(args.items)
    /\ SplitShown = SubSeq(args.items, 1, Len(SplitShown))
    /\ (\A k \in 1..Len(result) : ~\E j \in 1..Len(BulletsOf(result[k])) :
          IsMoreLine(BulletsOf(result[k])[j]))
         => SplitShown = args.items

SplitMoreLineLast ==
  SplitCase =>
    \A k \in 1..Len(result) : \A j \in 1..Len(BulletsOf(result[k])) :
      IsMoreLine(BulletsOf(result[k])[j]) =>
        k = Len(result) /\ j = Len(BulletsOf(result[k]))

SplitWithinTarget ==
  SplitCase =>
    \A k \in 1..Len(result) :
      Len(result[k]) <= TARGET_TWEET_LENGTH \/ Len(ItemBulletsOf(result[k])) = 1

\* C25: when the preview rendering of a category exceeds TARGET_TWEET_LENGTH,
\* splitCategoryIntoTweets spreads the items in order over consecutive
\* segments, the first labelled "<title>:" and the later ones
\* "<title> (cont.):"; a "K more..." line stands only in the last segment of
\* the category; every segment stays within TARGET_TWEET_LENGTH unless it
\* holds a single item.
C25_SplitCategory ==
  /\ SplitLabels
  /\ SplitItemsInOrder
  /\ SplitMoreLineLast
  /\ SplitWithinTarget

----------------------------------------------------------------------------
(* The checkpoint across runs *)

\* the version a checkpoint file holds
CheckpointOf(file) == readLastPostedVersion(file)

HoldsVersion(file) == CheckpointOf(file) # Null /\ CheckpointOf(file) # ""

\* C26: across any sequence of runs and any feed, out-of-order feeds included,
\* the checkpoint never moves to a version that compares lower under
\* compareVersions than the version it held before.
C26_CheckpointNeverLower ==
  [][(HoldsVersion(stateFile) /\ stateFile' # stateFile) =>
       compareVersions(CheckpointOf(stateFile'), CheckpointOf(stateFile)) >= 0]_vars

\* the posting calls of process r are in ascending order of version
PostedAscending(r) ==
  \A i, j \in 1..Len(FromRun(r)) :
    i < j => compareVersions(FromRun(r)[i].version, FromRun(r)[j].version) <= 0

\* no segment of a version is posted twice by process r
PostedOncePerVersion(r) ==
  \A i, j \in 1..Len(FromRun(r)) :
    (FromRun(r)[i].version = FromRun(r)[j].version /\ FromRun(r)[i].k = FromRun(r)[j].k)
      => i = j

\* C27: a backfill run posts each distinct version newer than the checkpoint
\* at most once and in ascending order of version, also when the feed holds
\* several entries of one version or lists its entries out of order.
C27_BackfillOncePerVersion ==
  \A r \in 1..Len(runLog) :
    ~NormalMode(runLog[r]) =>
      /\ PostedAscending(r)
      /\ PostedOncePerVersion(r)
      /\ \A i \in 1..Len(FromRun(r)) :
           compareVersions(FromRun(r)[i].version, runLog[r].lastPosted) > 0

----------------------------------------------------------------------------
(* formatTweets of formatter.ts called on its own, up to a hundred tweets *)

MaxNumbered == 8

NumberedLens == {10, 40, 61, 70, 80, 88, 90, 95, 100, 120, 300}

\* 297 features of 88 characters make a thread of 100 tweets: three features
\* fill a middle tweet to 272 characters, 280 with the reserved suffix
ManyFeatures == 297

NumberedInputs ==
  { [version |-> "0.92.0", features |-> [i \in 1..n |-> Rep("m", l)],
     releaseUrl |-> UrlOf("0.92.0"), counts |-> NoCounts]
    : n \in 0..MaxNumbered, l \in NumberedLens }
  \cup
  { [version |-> "0.92.0", features |-> [i \in 1..ManyFeatures |-> Rep("m", l)],
     releaseUrl |-> UrlOf("0.92.0"), counts |-> NoCounts]
    : l \in {88, 100} }

NumberedInit ==
  /\ fn = "formatTweets"
  /\ args \in NumberedInputs
  /\ result = <<>>
  /\ status = "called"
  /\ RunUnused
  /\ FormatUnused

\* formatTweets up to its while loop, or to its return of the single tweet
FormatTweetsNumbered ==
  /\ fn = "formatTweets" /\ status = "called"
  /\ LET truncated == Map(truncateFeatureB, args.features)
         singleTweet == buildSingleTweetB(args.version, truncated, args.releaseUrl,
                                          args.counts)
     IN IF Len(singleTweet) <= MAX_TWEET_LENGTH_B
        THEN /\ result' = <<singleTweet>>
             /\ status' = "returned"
        ELSE /\ result' = firstTweetB(args.version, truncated, args.releaseUrl,
                                      args.counts)
             /\ status' = "looping"
  /\ UNCHANGED <<fn, args, fvars, rvars>>

\* one pass of the while loop
WhileStepNumbered ==
  /\ fn = "formatTweets" /\ status = "looping"
  /\ ~whileEndsB(result)
  /\ result' = whileStepB(result)
  /\ UNCHANGED <<fn, args, status, fvars, rvars>>

\* the loop is left: footer tweet, numbering, return
NumberTweetsNumbered ==
  /\ fn = "formatTweets" /\ status = "looping"
  /\ whileEndsB(result)
  /\ result' = numberTweetsB(result)
  /\ status' = "returned"
  /\ UNCHANGED <<fn, args, fvars, rvars>>

NumberedNext ==
  \/ FormatTweetsNumbered
  \/ WhileStepNumbered
  \/ NumberTweetsNumbered

NumberedSpec == NumberedInit /\ [][NumberedNext]_vars

NumberedReturned == fn = "formatTweets" /\ status = "returned"

\* tweet i of N ends with " (i/N)"; a single tweet ends with the link
NumberedSuffixes ==
  NumberedReturned =>
    IF Len(result) = 1
    THEN EndsWith(result[1], args.releaseUrl)
    ELSE \A i \in 1..Len(result) :
           EndsWith(result[i],
                    " (" \o ToString(i) \o "/" \o ToString(Len(result)) \o ")")

NumberedWithinMax ==
  NumberedReturned =>
    \A i \in 1..Len(result) : Len(result[i]) <= MAX_TWEET_LENGTH_B

\* C28: in a thread of several tweets returned by formatTweets of
\* formatter.ts tweet i of N ends with " (i/N)", N being the number of
\* tweets; a single tweet carries no numbering; with the numbering appended
\* no tweet exceeds MAX_TWEET_LENGTH, for any number of features.
C28_NumberingWithinMax ==
  /\ NumberedSuffixes
  /\ NumberedWithinMax

----------------------------------------------------------------------------
(* DRY_RUN: postRelease prints the tweets and updates the state file *)

DryRuns == {r \in 1..Len(runLog) : runLog[r].dry}

\* the last release process r handed to postRelease
LastProcessed(r) == runLog[r].toPost[Len(runLog[r].toPost)]

DryRunPostsNothing == \A r \in DryRuns : FromRun(r) = <<>>

\* C29 as stated: in DRY_RUN mode a run makes no posting call and leaves
\* the checkpoint unchanged.
C29_DryRunLeavesCheckpoint ==
  /\ DryRunPostsNothing
  /\ \A r \in DryRuns : FileAfter(r) = runLog[r].startFile

\* C29, amended: in DRY_RUN mode a run makes no posting call; a dry run
\* with releases to process leaves in the checkpoint the version of the last
\* release it processed, followed by a newline, and a dry run with nothing
\* to process leaves the checkpoint unchanged.
C29_DryRunWritesCheckpoint ==
  /\ DryRunPostsNothing
  /\ \A r \in DryRuns :
       IF Len(runLog[r].toPost) = 0
       THEN FileAfter(r) = runLog[r].startFile
       ELSE FileAfter(r) = LastProcessed(r).version \o "\n"

C29_Witness ==
  \E r \in DryRuns :
    /\ Len(runLog[r].toPost) > 0
    /\ runLog[r].startFile # NoFile
    /\ FileAfter(r) # runLog[r].startFile
    /\ Len(posted) > 0

----------------------------------------------------------------------------
(* The changelog feed: parseRssItems of src/unnamed/part_000 *)

\* s.match(/OPEN(.*?)CLOSE/)?.[1], or with [\s\S]*? for the capture when
\* dotAll: <<capture>> for the leftmost match, <<>> when there is none
matchBetween(s, open, close, dotAll) ==
  LET closes == Positions(s, close)
      end(p) == FirstAtOrAfter(closes, p + Len(open))
      starts == {p \in Positions(s, open) :
                   /\ end(p) # 0
                   /\ dotAll \/ ~Contains(SubSeq(s, p + Len(open), end(p) - 1), "\n")}
  IN IF starts = {} THEN <<>>
     ELSE LET p == SetMin(starts)
          IN <<SubSeq(s, p + Len(open), end(p) - 1)>>

\* a ?? b ?? c over matches: the first capture there is, else the default
RECURSIVE firstCapture(_, _)
firstCapture(matches, default) ==
  IF Len(matches) = 0 THEN default
  ELSE IF matches[1] # <<>> THEN matches[1][1]
  ELSE firstCapture(Tail(matches), default)

\* itemRegex = /<item>([\s\S]*?)<\/item>/g and its exec loop: every match[1]
RECURSIVE itemContents(_)
itemContents(xml) ==
  LET ends == Positions(xml, "</item>")
      end(p) == FirstAtOrAfter(ends, p + 6)
      starts == {p \in Positions(xml, "<item>") : end(p) # 0}
  IN IF starts = {} THEN <<>>
     ELSE LET p == SetMin(starts)
          IN <<SubSeq(xml, p + 6, end(p) - 1)>>
             \o itemContents(SubSeq(xml, end(p) + 7, Len(xml)))

\* .replace(/PAT/g, rep) for a literal pattern
RECURSIVE ReplaceAll(_, _, _)
ReplaceAll(s, pat, rep) ==
  LET ps == Positions(s, pat) IN
  IF ps = {} THEN s
  ELSE LET p == SetMin(ps)
       IN SubSeq(s, 1, p - 1) \o rep
            \o ReplaceAll(SubSeq(s, p + Len(pat), Len(s)), pat, rep)

decodeHtmlEntities(text) ==
  ReplaceAll(ReplaceAll(ReplaceAll(ReplaceAll(ReplaceAll(ReplaceAll(text,
    "&lt;", "<"), "&gt;", ">"), "&amp;", "&"), "&quot;", "\""), "&#39;", "'"),
    "&apos;", "'")

\* \d+\.\d+\.\d+ at position q of s: the last index of the match, 0 for none
versionEnd(s, q) ==
  LET e1 == digitsEnd(s, q)
      e2 == digitsEnd(s, e1 + 2)
      e3 == digitsEnd(s, e2 + 2)
  IN IF /\ e1 >= q
        /\ e1 < Len(s) /\ CharAt(s, e1 + 1) = "."
        /\ e2 >= e1 + 2
        /\ e2 < Len(s) /\ CharAt(s, e2 + 1) = "."
        /\ e3 >= e2 + 2
     THEN e3 ELSE 0

\* title.match(/Codex.*?(\d+\.\d+\.\d+)/i): match[1], or Null
extractVersionOfTitle(title) ==
  LET low == toLowerCase(title)
      found == {pq \in Positions(low, "codex") \X (1..Len(title)) :
                  /\ pq[2] >= pq[1] + 5
                  /\ versionEnd(title, pq[2]) # 0
                  /\ ~Contains(SubSeq(title, pq[1] + 5, pq[2] - 1), "\n")}
  IN IF found = {} THEN Null
     ELSE LET p == SetMin({pq[1] : pq \in found})
              q == SetMin({pq[2] : pq \in {x \in found : x[1] = p}})
          IN SubSeq(title, q, versionEnd(title, q))

MonthNames ==
  <<"Jan", "Feb", "Mar", "Apr", "May", "Jun",
    "Jul", "Aug", "Sep", "Oct", "Nov", "Dec">>

TwoDigits(n) == IF n < 10 THEN "0" \o ToString(n) ELSE ToString(n)

AllDigits(s) == s # "" /\ \A i \in 1..Len(s) : IsDigit(CharAt(s, i))

\* new Date(pubDate).toISOString() for a date of the feed's form
\* "Mon, 27 Jan 2026 10:00:00 GMT": <<the ISO string>>; <<>> when the text
\* is no date (Invalid Date, on which toISOString throws a RangeError)
dateToISOString(pubDate) ==
  LET w == Split(pubDate, " ")
      clock == Split(w[5], ":")
      months == {m \in 1..12 : MonthNames[m] = w[3]}
  IN IF /\ Len(w) = 6
        /\ AllDigits(w[2]) /\ AllDigits(w[4])
        /\ months # {}
        /\ Len(clock) = 3 /\ \A i \in 1..3 : AllDigits(clock[i]) /\ Len(clock[i]) = 2
        /\ w[6] = "GMT"
     THEN <<w[4] \o "-" \o TwoDigits(SetMin(months)) \o "-" \o TwoDigits(Number(w[2]))
              \o "T" \o w[5] \o ".000Z">>
     ELSE <<>>

\* one pass of the loop body: the release pushed for an item (<<>>: none),
\* raised when toISOString throws; now is the reading of the clock
releaseOfItem(itemContent, now) ==
  LET title == firstCapture(
                 <<matchBetween(itemContent, "<title><![CDATA[", "]]></title>", FALSE),
                   matchBetween(itemContent, "<title>", "</title>", FALSE)>>, "")
      link == firstCapture(<<matchBetween(itemContent, "<link>", "</link>", FALSE)>>, "")
      pubDate == firstCapture(
                   <<matchBetween(itemContent, "<pubDate>", "</pubDate>", FALSE)>>, "")
      raw == firstCapture(
               <<matchBetween(itemContent, "<content:encoded><![CDATA[",
                              "]]></content:encoded>", TRUE),
                 matchBetween(itemContent, "<content:encoded>",
                              "</content:encoded>", TRUE)>>, "")
      body == IF raw # "" /\ ~Contains(itemContent, "<content:encoded><![CDATA[")
              THEN decodeHtmlEntities(raw) ELSE raw
      ver == extractVersionOfTitle(title)
      iso == IF pubDate # "" THEN dateToISOString(pubDate) ELSE <<now>>
  IN IF ver = Null THEN [raised |-> FALSE, releases |-> <<>>]
     ELSE IF iso = <<>> THEN [raised |-> TRUE, releases |-> <<>>]
     ELSE [raised |-> FALSE,
           releases |-> <<[version |-> ver, title |-> title, body |-> body,
                           url |-> link, publishedAt |-> iso[1]]>>]

\* the loop over the entries: the releases pushed so far are lost when an
\* item raises
RECURSIVE parseItemsLoop(_, _, _)
parseItemsLoop(contents, now, releases) ==
  IF Len(contents) = 0 THEN [raised |-> FALSE, releases |-> releases]
  ELSE LET one == releaseOfItem(contents[1], now) IN
       IF one.raised THEN [raised |-> TRUE, releases |-> <<>>]
       ELSE parseItemsLoop(Tail(contents), now, releases \o one.releases)

parseRssItems(xml, now) == parseItemsLoop(itemContents(xml), now, <<>>)

MaxRssItems == 2

RssTitles == {"Codex CLI Release: 0.92.0", "Codex CLI Release: 0.93.0", "GPT-4 Update"}

NoPubDate == "<none>"

RssPubDates == {"Mon, 27 Jan 2026 10:00:00 GMT", "not a date", NoPubDate}

RssBodies == {"<![CDATA[<h2>New Features</h2>]]>", "&lt;h2&gt;New Features&lt;/h2&gt;"}

RssItems == [title : RssTitles, pubDate : RssPubDates, encoded : RssBodies]

RssItemLists == UNION {[1..n -> RssItems] : n \in 0..MaxRssItems}

ItemXml(item) ==
  "<item>\n<title>" \o item.title \o "</title>\n<link>https://example.com/"
    \o "</link>\n"
    \o (IF item.pubDate = NoPubDate THEN ""
        ELSE "<pubDate>" \o item.pubDate \o "</pubDate>\n")
    \o "<content:encoded>" \o item.encoded \o "</content:encoded>\n</item>\n"

RssXml(entries) ==
  "<rss><channel>\n" \o Join(Map(ItemXml, entries), "") \o "</channel></rss>"

RssNow == "2026-02-01T00:00:00.000Z"

RssInit ==
  /\ fn = "parseRssItems"
  /\ \E entries \in RssItemLists :
       args = [items |-> entries, xml |-> RssXml(entries), now |-> RssNow]
  /\ result = <<>>
  /\ status = "called"
  /\ RunUnused
  /\ FormatUnused

ParseRssItems ==
  /\ fn = "parseRssItems" /\ status = "called"
  /\ result' = parseRssItems(args.xml, args.now)
  /\ status' = "returned"
  /\ UNCHANGED <<fn, args, fvars, rvars>>

RssNext == ParseRssItems

RssSpec == RssInit /\ [][RssNext]_vars

RssReturned == fn = "parseRssItems" /\ status = "returned"

IsCodexItem(item) == item.title # "GPT-4 Update"

HasUnparseableDate(item) == item.pubDate = "not a date"

\* the versions the titles of the feed's Codex entries carry, in feed order
RssVersionsInOrder(entries) ==
  LET versionOf(item) == SubSeq(item.title, Len(item.title) - 5, Len(item.title))
  IN Map(versionOf, Filter(IsCodexItem, entries))

VersionOfRelease(r) == r.version

\* the entries at the positions kept, in feed order
ItemsAt(entries, kept) ==
  LET isKept(i) == i \in kept
      pick == Filter(isKept, [i \in 1..Len(entries) |-> i])
  IN [k \in 1..Len(pick) |-> entries[pick[k]]]

\* kept holds every Codex item whose date is not unparseable, and Codex
\* entries only
KeepsTheOthers(entries, kept) ==
  /\ \A i \in 1..Len(entries) :
       (IsCodexItem(entries[i]) /\ ~HasUnparseableDate(entries[i])) => i \in kept
  /\ \A i \in kept : IsCodexItem(entries[i])

\* C30: parseRssItems does not raise for a feed item whose pubDate cannot be
\* parsed as a date: the item resolves to a degraded result and the other
\* items of the feed are still returned, in feed order.
C30_UnparseableDateNoError ==
  RssReturned =>
    /\ ~result.raised
    /\ \E kept \in SUBSET (1..Len(args.items)) :
         /\ KeepsTheOthers(args.items, kept)
         /\ Map(VersionOfRelease, result.releases)
              = RssVersionsInOrder(ItemsAt(args.items, kept))
====
